---- MODULE Spec2Model ----
(***************************************************************************)
(* A model of @apigrate/dao: the CriteriaHelper where-clause builder and   *)
(* the Dao table gateway.                                                  *)
(*                                                                         *)
(* SQL text is a sequence of tokens (whitespace is dropped): the text      *)
(* "a=? AND b LIKE ?" is <<"a","=","?","AND","b","LIKE","?">>.  A '?'      *)
(* placeholder is the token "?".  Column names and operators are whole     *)
(* tokens and never contain '?' or a parenthesis.                          *)
(*                                                                         *)
(* JavaScript values are written as strings of their source form:         *)
(* "null", "undefined", "''" (the empty string), "0", "5", "[]", ...       *)
(***************************************************************************)
EXTENDS Integers, Sequences, FiniteSets, TLC

VARIABLES
    helper,       \* which CriteriaHelper source the instance was built from
    ctorOpts,     \* the opts argument given to the CriteriaHelper constructor
    omitNull,     \* this.omitNull
    omitEmpty,    \* this.omitEmpty
    whereClause,  \* this.whereClause, as tokens
    parms,        \* this.parms
    queryOptions, \* this.queryOptions
    lastCall,     \* the most recent builder call and its arguments
    ncalls,       \* number of builder calls made so far
    dao,          \* which Dao source the gateway was built from
    options,      \* this.options of the gateway
    schema,       \* the rows the database answers SHOW COLUMNS with
    metadata,     \* this.metadata of the gateway
    daoCall,      \* the gateway operation in progress or just settled
    issued,       \* the statements that operation handed to the pool
    outcome,      \* how that operation's promise settled
    result,       \* what it settled with: the value resolved or the error
    procs,        \* operations in progress at once on the gateway, each at an await
    middleware,   \* the arguments an express middleware was configured with
    req,          \* the request the middleware is handed
    res,          \* res.locals, the status sent and whether next was called
    called        \* the gateway operations the middleware called, in order

criteriaVars ==
    <<helper, ctorOpts, omitNull, omitEmpty, whereClause, parms, queryOptions, lastCall, ncalls>>

daoVars == <<dao, options, schema, metadata, daoCall, issued, outcome, result, procs>>

expressVars == <<middleware, req, res, called>>

vars == <<criteriaVars, daoVars, expressVars>>

(***************************************************************************)
(* Bounds                                                                  *)
(***************************************************************************)
MaxCalls == 3        \* builder calls per run, general inputs
MaxGroupCalls == 5   \* builder calls per run, grouping inputs
MaxProps == 2        \* properties of an entity object given to the gateway
MaxFilterProps == 2  \* properties of a filter or criteria object
MaxOptionCalls == 3  \* builder calls per run, query-option inputs
MaxOps == 3          \* operations in progress at once on one gateway
MaxRows == 2         \* rows the query of saveAll returns, entries of toSave

(***************************************************************************)
(* JavaScript values                                                       *)
(***************************************************************************)
IsNil(v) == v \in {"null", "undefined"}

IsArray(v) == v \in {"[]", "[1,2]"}

\* x.length === 0 : true of the empty string and of the empty array; a
\* number has no length property (undefined === 0 is false).
HasZeroLength(v) == v \in {"''", "[]"}

Truthy(v) == v \notin {"false", "null", "undefined", "''", "0"}

\* a || b
JsOr(a, b) == IF Truthy(a) THEN a ELSE b

\* a && b
JsAnd(a, b) == IF Truthy(a) THEN b ELSE a

Count(seq, tok) == Cardinality({i \in 1..Len(seq) : seq[i] = tok})

endsWith(seq, tok) == Len(seq) > 0 /\ seq[Len(seq)] = tok

(***************************************************************************)
(* CriteriaHelper                                                          *)
(*   helper = "lib"    : src/lib/criteria-helper.js                        *)
(*   helper = "legacy" : the prototype-based helper of src/unnamed/part_002*)
(***************************************************************************)
Helpers == {"lib", "legacy"}

\* The opts objects a caller may construct the helper with.  `given` is
\* FALSE when the argument is omitted.
NoOpts == [given |-> FALSE, omitIfNull |-> "undefined", omitIfEmpty |-> "undefined",
           omitNull |-> "undefined", omitEmpty |-> "undefined"]

CtorOpts ==
    { NoOpts,
      [NoOpts EXCEPT !.given = TRUE, !.omitNull = "false", !.omitEmpty = "false"],
      [NoOpts EXCEPT !.given = TRUE, !.omitIfNull = "false", !.omitIfEmpty = "false"] }

\* The value of the expression `opts` itself in a boolean context.
OptsValue(opts) == IF opts.given THEN "object" ELSE "undefined"

\* A number argument: undefined, null, or a number held in tenths (3.7 is
\* 37), so that Math.floor has something to do.
UndefinedNumber == [kind |-> "undefined", tenths |-> 0]

NullNumber == [kind |-> "null", tenths |-> 0]

Number(tenths) == [kind |-> "number", tenths |-> tenths]

\* A columns argument: undefined, null, a string or an array of strings.
UndefinedColumns == [kind |-> "undefined", items |-> <<>>]

NullColumns == [kind |-> "null", items |-> <<>>]

Array(items) == [kind |-> "array", items |-> items]

\* A property of queryOptions: not set, or set to a value.
Unset == [set |-> FALSE, n |-> 0, columns |-> UndefinedColumns]

SetNumber(n) == [set |-> TRUE, n |-> n, columns |-> UndefinedColumns]

SetColumns(columns) == [set |-> TRUE, n |-> 0, columns |-> columns]

\* this.queryOptions = {}
EmptyQueryOptions == [orderBy |-> Unset, limit |-> Unset, offset |-> Unset]

constructor(h, opts) ==
    [ helper      |-> h,
      whereClause |-> <<>>,
      parms       |-> <<>>,
      queryOptions |-> EmptyQueryOptions,
      omitNull    |-> JsOr(JsAnd(OptsValue(opts), opts.omitIfNull), "true"),
      omitEmpty   |-> JsOr(JsAnd(OptsValue(opts), opts.omitIfEmpty), "true") ]

toUpperCase(oper) ==
    CASE oper = "like"        -> "LIKE"
      [] oper = "in"          -> "IN"
      [] oper = "not in"      -> "NOT IN"
      [] oper = "is null"     -> "IS NULL"
      [] oper = "Is Not Null" -> "IS NOT NULL"
      [] OTHER                -> oper

\* oper.includes('IN'), on upper-cased operators
includesIN(oper) == oper \in {"IN", "NOT IN"}

IsUnary(oper) == oper = "IS NOT NULL" \/ oper = "IS NULL"

isEmpty(this, x) ==
    IF this.helper = "lib"
    THEN IsNil(x) \/ (~IsArray(x) /\ HasZeroLength(x))
    ELSE IsNil(x) \/ (IsArray(x) /\ HasZeroLength(x))

Skipped_unaryToo(this, oper, value) ==
    \/ IsNil(value) /\ Truthy(this.omitNull)
    \/ isEmpty(this, value) /\ Truthy(this.omitEmpty)

\* The skip policy at the head of _where; oper is already upper-cased.
Skipped(this, oper, value) ==
    /\ ~IsUnary(oper)
    /\ \/ IsNil(value) /\ Truthy(this.omitNull)
       \/ isEmpty(this, value) /\ Truthy(this.omitEmpty)

Fresh_emptyOnly(this) == this.whereClause = <<>>

\* Whether the next clause or group is written without a leading connective.
Fresh(this) ==
    \/ this.whereClause = <<>>
    \/ this.helper = "lib" /\ endsWith(this.whereClause, "(")

\* The connective, column and operator of a rendered clause.
ClauseHead(this, bool, name, oper) ==
    IF Fresh(this) THEN <<name, oper>> ELSE <<bool, name, oper>>

Bind_dropParm(this, oper, value) ==
    IF oper = "LIKE"
    THEN [this EXCEPT !.whereClause = @ \o <<"?">>, !.parms = Append(@, value)]
    ELSE IF this.helper = "lib" /\ includesIN(oper)
    THEN [this EXCEPT !.whereClause = @ \o <<"(", "?", ")">>]
    ELSE [this EXCEPT !.whereClause = @ \o <<"?">>, !.parms = Append(@, value)]

\* The placeholder and the pushed value of a rendered non-unary clause.
Bind(this, oper, value) ==
    IF oper = "LIKE"
    THEN [this EXCEPT !.whereClause = @ \o <<"?">>, !.parms = Append(@, value)]
    ELSE IF this.helper = "lib" /\ includesIN(oper)
    THEN [this EXCEPT !.whereClause = @ \o <<"(", "?", ")">>, !.parms = Append(@, value)]
    ELSE [this EXCEPT !.whereClause = @ \o <<"?">>, !.parms = Append(@, value)]

_where(this, bool, name, oper0, value) ==
    LET oper == toUpperCase(oper0)
        headed == [this EXCEPT !.whereClause = @ \o ClauseHead(this, bool, name, oper)]
    IN  IF Skipped(this, oper, value) THEN this
        ELSE IF IsUnary(oper) THEN headed
        ELSE Bind(headed, oper, value)

andGroup(this) ==
    IF Fresh(this)
    THEN [this EXCEPT !.whereClause = @ \o <<"(">>]
    ELSE [this EXCEPT !.whereClause = @ \o <<"AND", "(">>]

orGroup(this) ==
    IF Fresh(this)
    THEN [this EXCEPT !.whereClause = @ \o <<"(">>]
    ELSE [this EXCEPT !.whereClause = @ \o <<"OR", "(">>]

groupEnd(this) == [this EXCEPT !.whereClause = @ \o <<")">>]

\* The test orderBy makes of its argument: this.isEmpty(columns) in lib,
\* which is false of every array; _.isEmpty(columns) in the prototype
\* helper.
orderByIsEmpty(this, columns) ==
    IF this.helper = "lib"
    THEN columns.kind \in {"undefined", "null"}
         \/ (columns.kind # "array" /\ Len(columns.items) = 0)
    ELSE columns.kind \in {"undefined", "null"} \/ Len(columns.items) = 0

orderBy(this, columns) ==
    IF orderByIsEmpty(this, columns) THEN this
    ELSE [this EXCEPT !.queryOptions.orderBy = SetColumns(columns)]

\* Math.floor of a number held in tenths
floor(tenths) == tenths \div 10

Invalid_negativeAllowed(number) == number.kind \in {"undefined", "null"}

\* typeof number==='undefined' || number === null || number < 0
Invalid(number) == number.kind \in {"undefined", "null"} \/ number.tenths < 0

limit(this, number) ==
    IF Invalid(number)
    THEN [this EXCEPT !.queryOptions.limit = SetNumber(1)]
    ELSE [this EXCEPT !.queryOptions.limit = SetNumber(floor(number.tenths))]

offset(this, number) ==
    IF Invalid(number)
    THEN [this EXCEPT !.queryOptions.offset = SetNumber(0)]
    ELSE [this EXCEPT !.queryOptions.offset = SetNumber(floor(number.tenths))]

\* The builder instance as the methods see it.
This ==
    [ helper |-> helper, whereClause |-> whereClause, parms |-> parms,
      queryOptions |-> queryOptions, omitNull |-> omitNull, omitEmpty |-> omitEmpty ]

NoCall ==
    [ op |-> "new", bool |-> "", name |-> "", oper |-> "", value |-> "",
      columns |-> UndefinedColumns, number |-> UndefinedNumber ]

\* Store the instance a method returns, and note the call.
Called(r, call) ==
    /\ whereClause' = r.whereClause
    /\ parms' = r.parms
    /\ queryOptions' = r.queryOptions
    /\ lastCall' = call
    /\ ncalls' = ncalls + 1
    /\ UNCHANGED <<helper, ctorOpts, omitNull, omitEmpty>>
    /\ UNCHANGED daoVars
    /\ UNCHANGED expressVars

InitHelper(optsSet, helpers) ==
    /\ helper \in helpers
    /\ ctorOpts \in optsSet
    /\ LET this == constructor(helper, ctorOpts)
       IN  /\ whereClause = this.whereClause
           /\ parms = this.parms
           /\ queryOptions = this.queryOptions
           /\ omitNull = this.omitNull
           /\ omitEmpty = this.omitEmpty
    /\ lastCall = NoCall
    /\ ncalls = 0

(***************************************************************************)
(* Dao, the table gateway                                                  *)
(*   dao = "part_002" : the Dao class of src/unnamed/part_002              *)
(*   dao = "lib"      : the Dao class of src/lib/mysql/dao.js              *)
(*                                                                         *)
(* A JavaScript object is [kind, props]: kind is "object", "null" or       *)
(* "undefined", and props is the sequence of its <<key, value>> properties *)
(* in insertion order, the order for..in and _.each visit them in.         *)
(***************************************************************************)
Daos == {"part_002", "lib"}

table == "t_customer"

Obj(props) == [kind |-> "object", props |-> props]

NullObj == [kind |-> "null", props |-> <<>>]

UndefinedObj == [kind |-> "undefined", props |-> <<>>]

\* Every object of at most max of the given <<key, value>> properties, no
\* key twice.
ObjectsOver(pairs, max) ==
    { Obj(s) : s \in { q \in UNION { [1..n -> pairs] : n \in 0..max } :
                         \A i, j \in DOMAIN q : i # j => q[i][1] # q[j][1] } }

\* obj[k]
Prop(obj, k) ==
    IF \E i \in DOMAIN obj.props : obj.props[i][1] = k
    THEN obj.props[CHOOSE i \in DOMAIN obj.props : obj.props[i][1] = k][2]
    ELSE "undefined"

\* _.isEmpty(obj) for an object, null or undefined
LodashIsEmpty(obj) == obj.kind # "object" \/ obj.props = <<>>

RECURSIVE Join(_, _)
\* The token sequences of parts, with the separator between them.
Join(parts, sep) ==
    IF parts = <<>> THEN <<>>
    ELSE IF Len(parts) = 1 THEN parts[1]
    ELSE parts[1] \o sep \o Join(Tail(parts), sep)

\* The rows of SHOW COLUMNS for the tables and views of the model.
Row(field, type, key, null, extra) ==
    [Field |-> field, Type |-> type, Key |-> key, Null |-> null, Extra |-> extra]

CustomerTable ==
    << Row("id", "int(11)", "PRI", "NO", "auto_increment"),
       Row("name", "varchar(50)", "", "YES", ""),
       Row("qty", "int(11)", "", "NO", ""),
       Row("updated", "timestamp", "", "YES", "") >>

LineItemTable ==
    << Row("id", "int(11)", "PRI", "NO", ""),
       Row("name", "varchar(50)", "PRI", "NO", ""),
       Row("qty", "int(11)", "", "YES", ""),
       Row("updated", "timestamp", "", "YES", "") >>

CustomerView ==
    << Row("name", "varchar(50)", "", "YES", ""),
       Row("qty", "int(11)", "", "NO", "") >>

Schemas == {CustomerTable, LineItemTable, CustomerView}

\* this.options as the constructor leaves it: the defaults when opts is
\* omitted, opts itself otherwise (here an opts object naming no column).
DefaultOptions ==
    [ created_timestamp_column |-> "created",
      updated_timestamp_column |-> "updated",
      version_number_column    |-> "version" ]

BareOptions ==
    [ created_timestamp_column |-> "undefined",
      updated_timestamp_column |-> "undefined",
      version_number_column    |-> "undefined" ]

DaoOptions == {DefaultOptions, BareOptions}

NullMetadata == [loaded |-> FALSE, cols |-> <<>>]

\* What the pool's callback is given for a statement: err, or a result that
\* is an array of rows (SELECT, SHOW COLUMNS) or a packet with affectedRows
\* and insertId (INSERT, UPDATE, DELETE).
PoolError == [err |-> TRUE, rows |-> <<>>, affectedRows |-> "undefined", insertId |-> "undefined"]

Rows(rs) == [err |-> FALSE, rows |-> rs, affectedRows |-> "undefined", insertId |-> "undefined"]

Packet(affectedRows, insertId) ==
    [err |-> FALSE, rows |-> <<>>, affectedRows |-> affectedRows, insertId |-> insertId]

\* A statement as handed to pool.query, with what the pool answered.
Statement(text, values, answer) == [sql |-> text, parms |-> values, answer |-> answer]

ShowColumnsText == <<"SHOW", "COLUMNS", "FROM", table, ";">>

ShowColumns(answer, rows) ==
    Statement(ShowColumnsText, <<>>, IF answer = "error" THEN PoolError ELSE Rows(rows))

loadMetadataStatements_always(this, answer, rows) == <<ShowColumns(answer, rows)>>

\* The statements loadMetadata / fetchMetadata hands to the pool: SHOW
\* COLUMNS when this.metadata is not set, nothing otherwise.
loadMetadataStatements(this, answer, rows) ==
    IF this.metadata.loaded THEN <<>> ELSE <<ShowColumns(answer, rows)>>

mapResults_partial(this, rows) ==
    [ loaded |-> TRUE,
      cols |-> [ i \in DOMAIN SubSeq(rows, 1, 1) |->
          [ column        |-> rows[i].Field,
            sql_type      |-> rows[i].Type,
            pk            |-> rows[i].Key = "PRI",
            nullable      |-> rows[i].Null = "YES",
            autoincrement |-> rows[i].Extra = "auto_increment",
            is_updated_timestamp |-> FALSE,
            is_created_timestamp |-> FALSE,
            is_updated_version |-> FALSE ] ] ]

\* results.map(item => ...): the metadata built from the rows of SHOW
\* COLUMNS.
mapResults(this, rows) ==
    [ loaded |-> TRUE,
      cols |-> [ i \in DOMAIN rows |->
          [ column        |-> rows[i].Field,
            sql_type      |-> rows[i].Type,
            pk            |-> rows[i].Key = "PRI",
            nullable      |-> rows[i].Null = "YES",
            autoincrement |-> rows[i].Extra = "auto_increment",
            is_updated_timestamp |->
                /\ ~IsNil(this.options.updated_timestamp_column)
                /\ rows[i].Field = this.options.updated_timestamp_column,
            is_created_timestamp |->
                /\ ~IsNil(this.options.created_timestamp_column)
                /\ rows[i].Field = this.options.created_timestamp_column,
            is_updated_version |->
                /\ ~IsNil(this.options.version_number_column)
                /\ rows[i].Field = this.options.version_number_column ] ] ]

\* The metadata after loadMetadata / fetchMetadata, given the pool's answer
\* to SHOW COLUMNS: "rows" or "error".  An error is logged and swallowed.
loadMetadata(this, answer, rows) ==
    IF this.metadata.loaded THEN this.metadata
    ELSE IF answer = "error" THEN this.metadata
    ELSE mapResults(this, rows)

\* this.metadata.filter(...) on a null metadata is a TypeError in part_002;
\* _.filter(null, ...) is [] in lib.
MetadataThrows(this) == this.dao = "part_002" /\ ~this.metadata.loaded

IsPk(col) == col.pk

IsNotPk(col) == ~col.pk

IsNotAiPk_everyColumn(col) == TRUE

IsNotAiPk(col) == (col.pk /\ ~col.autoincrement) \/ ~col.pk

\* not_pks.find(x => x.column === k): a one-element or empty sequence
FindColumn(cols, k) ==
    LET Named(c) == c.column = k IN SelectSeq(cols, Named)

\* What a promise settles with.
NoResult == [kind |-> "none", error |-> "", row |-> "", rows |-> <<>>, entity |-> UndefinedObj]

\* Rejected with the error the pool reported ("driver") or with one the
\* gateway's own code threw ("thrown").
Rejected(e) == [NoResult EXCEPT !.kind = "error", !.error = e]

ResolvedNull == [NoResult EXCEPT !.kind = "null"]

ResolvedRow(r) == [NoResult EXCEPT !.kind = "row", !.row = r]

ResolvedRows(rs) == [NoResult EXCEPT !.kind = "rows", !.rows = rs]

ResolvedEntity(obj) == [NoResult EXCEPT !.kind = "entity", !.entity = obj]

\* A value the model does not look into (a count, an entity with its
\* affected-row count, ...).
ResolvedOther == [NoResult EXCEPT !.kind = "other"]

\* v > 0 for the numbers a result packet carries
GreaterThanZero(v) == v \in {"1", "2", "9"}

\* obj[k] = v
SetProp(obj, k, v) ==
    IF \E i \in DOMAIN obj.props : obj.props[i][1] = k
    THEN [obj EXCEPT !.props =
             [i \in DOMAIN obj.props |->
                 IF obj.props[i][1] = k THEN <<k, v>> ELSE obj.props[i]]]
    ELSE [obj EXCEPT !.props = Append(@, <<k, v>>)]

\* What building a statement yields: a thrown error, or the SQL and parms.
Thrown == [thrown |-> TRUE, sql |-> <<>>, parms |-> <<>>]

Built(text, values) == [thrown |-> FALSE, sql |-> text, parms |-> values]

\* The query options a caller passes.  An orderBy entry is [sign, col], the
\* string sign + col.
Opts(rows, skip, order) ==
    [kind |-> "object", limit |-> rows, offset |-> skip, orderBy |-> order,
     explicit_pk |-> "undefined"]

NoQueryOpts ==
    [kind |-> "undefined", limit |-> "undefined", offset |-> "undefined", orderBy |-> <<>>,
     explicit_pk |-> "undefined"]

QueryOpts ==
    { NoQueryOpts,
      Opts("undefined", "undefined", <<>>),
      Opts("2", "undefined", <<>>),
      Opts("undefined", "5", << [sign |-> "-", col |-> "name"], [sign |-> "", col |-> "qty"] >>) }

\* typeof datatype tests of _transformToSafeValue: datetime, timestamp, or a
\* type starting with int, num or dec.
IsNumericOrDate(sql_type) ==
    sql_type \in {"datetime", "timestamp", "int(11)", "numeric(10,2)", "decimal(10,2)"}

\* moment(input).format('YYYY-MM-DD HH:mm:ss')
MomentFormat(input) == "moment(" \o input \o ")"

\* The value bound for input on column, or "throw".
_transformToSafeValue(this, input, column) ==
    IF input = "''"
    THEN IF IsNumericOrDate(column.sql_type)
         THEN IF column.nullable THEN "null" ELSE "throw"
         ELSE input
    ELSE IF this.dao = "lib" /\ ~IsNil(input) /\ column.sql_type \in {"datetime", "timestamp"}
         THEN MomentFormat(input)
         ELSE input

OrderByText(order) ==
    <<"ORDER", "BY">> \o
    Join([ i \in DOMAIN order |->
             <<order[i].col, IF order[i].sign = "-" THEN "DESC" ELSE "ASC">> ], <<",">>)

\* if(opts.limit) in part_002, if(!_.isNil(opts.limit)) in lib
Given(this, v) == IF this.dao = "part_002" THEN Truthy(v) ELSE ~IsNil(v)

_appendOrderByAndLimit(this, sql, opts) ==
    LET given == opts.kind = "object"
        ordering == IF given /\ Len(opts.orderBy) > 0 THEN OrderByText(opts.orderBy) ELSE <<>>
        limiting ==
            IF ~given THEN <<>>
            ELSE (IF Given(this, opts.limit) THEN <<"LIMIT", opts.limit>> ELSE <<"LIMIT", "1000">>)
                 \o (IF Given(this, opts.offset) THEN <<"OFFSET", opts.offset>> ELSE <<>>)
        pks == SelectSeq(this.metadata.cols, IsPk)
        pkOrder ==
            IF Len(pks) > 0
            THEN <<"ORDER", "BY">> \o Join([i \in DOMAIN pks |-> <<pks[i].column, "ASC">>], <<",">>)
            ELSE <<>>
    IN  IF ordering = <<>> /\ MetadataThrows(this) THEN Thrown
        ELSE Built(sql \o (IF ordering = <<>> THEN pkOrder ELSE ordering) \o limiting, <<>>)

\* The WHERE body built from every key of a filter object, joined by bool.
WhereOf(obj, bool) ==
    [ sql   |-> Join([i \in DOMAIN obj.props |-> <<obj.props[i][1], "=", "?">>], <<bool>>),
      parms |-> [i \in DOMAIN obj.props |-> obj.props[i][2]] ]

(***************************************************************************)
(* The statements the gateway assembles.  `this` is [dao, options,         *)
(* metadata], with metadata as loadMetadata left it.                       *)
(***************************************************************************)
SelectAll == <<"SELECT", "*", "FROM", table>>

SelectCount == <<"SELECT", "count(*)", "as", "count", "FROM", table>>

WhereText(where) == IF where # <<>> THEN <<"WHERE">> \o where ELSE <<>>

get(this, id) == Built(SelectAll \o <<"WHERE", "id", "=", "?">>, <<id>>)

all(this, opts) == _appendOrderByAndLimit(this, SelectAll, opts)

query(this, filter, opts) ==
    LET w == WhereOf(filter, "AND")
        r == _appendOrderByAndLimit(this, SelectAll \o WhereText(w.sql), opts)
    IN  IF r.thrown THEN Thrown ELSE Built(r.sql, w.parms)

count(this, filter, opts) ==
    LET w == WhereOf(filter, "AND")
        r == _appendOrderByAndLimit(this, SelectCount \o WhereText(w.sql), opts)
    IN  IF r.thrown THEN Thrown ELSE Built(r.sql, w.parms)

selectWhere(this, where, whereParms, opts) ==
    LET r == _appendOrderByAndLimit(this, SelectAll \o WhereText(where), opts)
    IN  IF r.thrown THEN Thrown ELSE Built(r.sql, whereParms)

create(this, save, opts) ==
    LET eligible ==
            IF this.dao = "part_002" /\ opts.kind = "object" /\ Truthy(opts.explicit_pk)
            THEN this.metadata.cols
            ELSE SelectSeq(this.metadata.cols, IsNotAiPk)
        Matches(p) == FindColumn(eligible, p[1]) # <<>>
        props == SelectSeq(save.props, Matches)
        cols == [i \in DOMAIN props |-> <<props[i][1]>>]
        vals == [i \in DOMAIN props |-> <<"?">>]
        bound == [i \in DOMAIN props |->
                    _transformToSafeValue(this, props[i][2], FindColumn(eligible, props[i][1])[1])]
    IN  IF MetadataThrows(this) THEN Thrown
        ELSE IF \E i \in DOMAIN bound : bound[i] = "throw" THEN Thrown
        ELSE Built(<<"INSERT", "INTO", table, "(">> \o Join(cols, <<",">>)
                     \o <<")", "VALUES", "(">> \o Join(vals, <<",">>) \o <<")", ";">>,
                   bound)

\* The ", updated=CURRENT_TIMESTAMP, version=version+1" tail of a SET list.
Versioning(this) ==
    (IF Truthy(this.options.updated_timestamp_column)
     THEN <<",", this.options.updated_timestamp_column, "=", "CURRENT_TIMESTAMP">>
     ELSE <<>>)
    \o
    (IF Truthy(this.options.version_number_column)
     THEN <<",", this.options.version_number_column, "=",
            this.options.version_number_column, "+", "1">>
     ELSE <<>>)

SetClause_dropNullParm(this, save) ==
    LET not_pks == SelectSeq(this.metadata.cols, IsNotPk)
        Settable(p) ==
            /\ FindColumn(not_pks, p[1]) # <<>>
            /\ p[1] # this.options.created_timestamp_column
            /\ p[1] # this.options.version_number_column
            /\ p[1] # this.options.updated_timestamp_column
        props == SelectSeq(save.props, Settable)
        safe == [i \in DOMAIN props |->
                    _transformToSafeValue(this, props[i][2], FindColumn(not_pks, props[i][1])[1])]
        sets == Join([i \in DOMAIN props |-> <<props[i][1], "=", "?">>], <<",">>)
    IN  IF MetadataThrows(this) THEN Thrown
        ELSE IF \E i \in DOMAIN safe : safe[i] = "throw" THEN Thrown
        ELSE IF sets = <<>> THEN Thrown
        ELSE Built(sets \o Versioning(this),
                   LET Bound(v) == ~IsNil(v) IN SelectSeq(safe, Bound))

SetClause_noEmptyCheck(this, save) ==
    LET not_pks == SelectSeq(this.metadata.cols, IsNotPk)
        Settable(p) ==
            /\ FindColumn(not_pks, p[1]) # <<>>
            /\ p[1] # this.options.created_timestamp_column
            /\ p[1] # this.options.version_number_column
            /\ p[1] # this.options.updated_timestamp_column
        props == SelectSeq(save.props, Settable)
        safe == [i \in DOMAIN props |->
                    _transformToSafeValue(this, props[i][2], FindColumn(not_pks, props[i][1])[1])]
        sets == Join([i \in DOMAIN props |-> <<props[i][1], "=", "?">>], <<",">>)
    IN  IF MetadataThrows(this) THEN Thrown
        ELSE IF \E i \in DOMAIN safe : safe[i] = "throw" THEN Thrown
        ELSE Built(sets \o Versioning(this),
                   [i \in DOMAIN safe |-> IF IsNil(safe[i]) THEN "null" ELSE safe[i]])

\* The SET list of update and updateMatching and its parameters.
SetClause(this, save) ==
    LET not_pks == SelectSeq(this.metadata.cols, IsNotPk)
        Settable(p) ==
            /\ FindColumn(not_pks, p[1]) # <<>>
            /\ p[1] # this.options.created_timestamp_column
            /\ p[1] # this.options.version_number_column
            /\ p[1] # this.options.updated_timestamp_column
        props == SelectSeq(save.props, Settable)
        safe == [i \in DOMAIN props |->
                    _transformToSafeValue(this, props[i][2], FindColumn(not_pks, props[i][1])[1])]
        sets == Join([i \in DOMAIN props |-> <<props[i][1], "=", "?">>], <<",">>)
    IN  IF MetadataThrows(this) THEN Thrown
        ELSE IF \E i \in DOMAIN safe : safe[i] = "throw" THEN Thrown
        ELSE IF sets = <<>> THEN Thrown
        ELSE Built(sets \o Versioning(this),
                   [i \in DOMAIN safe |-> IF IsNil(safe[i]) THEN "null" ELSE safe[i]])

PkWhere_firstKeyOnly(this, entity) ==
    LET all_pks == SelectSeq(this.metadata.cols, IsPk)
        pks == IF all_pks = <<>> THEN <<>> ELSE <<all_pks[1]>>
    IN  [ sql   |-> Join([i \in DOMAIN pks |-> <<pks[i].column, "=", "?">>], <<"AND">>),
          parms |-> [i \in DOMAIN pks |-> Prop(entity, pks[i].column)] ]

\* "pk1=? AND pk2=?" over the primary-key columns, with the entity's values.
PkWhere(this, entity) ==
    LET pks == SelectSeq(this.metadata.cols, IsPk)
    IN  [ sql   |-> Join([i \in DOMAIN pks |-> <<pks[i].column, "=", "?">>], <<"AND">>),
          parms |-> [i \in DOMAIN pks |-> Prop(entity, pks[i].column)] ]

update(this, save) ==
    LET s == SetClause(this, save)
        w == PkWhere(this, save)
    IN  IF s.thrown THEN Thrown
        ELSE Built(<<"UPDATE", table, "SET">> \o s.sql \o WhereText(w.sql), s.parms \o w.parms)

\* if(!criteria || Object.keys(criteria)===0) in part_002: an array never
\* equals 0.  if(_.isEmpty(criteria)) in lib.
updateMatchingRefuses(this, criteria) ==
    IF this.dao = "part_002"
    THEN criteria.kind # "object"
    ELSE LodashIsEmpty(criteria)

updateMatching(this, save, criteria, opts) ==
    LET s == SetClause(this, save)
        w == WhereOf(criteria, "AND")
        r == _appendOrderByAndLimit(this,
                 <<"UPDATE", table, "SET">> \o s.sql \o WhereText(w.sql), opts)
    IN  IF s.thrown \/ r.thrown THEN Thrown
        ELSE Built(r.sql, s.parms \o w.parms)

deleteOne(this, toDelete) ==
    LET w == PkWhere(this, toDelete)
    IN  IF MetadataThrows(this) THEN Thrown
        ELSE IF w.sql = <<>> THEN Thrown
        ELSE Built(<<"DELETE", "FROM", table, "WHERE">> \o w.sql, w.parms)

delete(this, id) == Built(<<"DELETE", "FROM", table, "WHERE", "id", "=", "?">>, <<id>>)

deleteMatchingRefuses_keysEqualZero(this, criteria) == criteria.kind # "object"

\* if(!criteria || Object.keys(criteria).length === 0) in part_002,
\* if(_.isEmpty(criteria)) in lib.
deleteMatchingRefuses(this, criteria) ==
    IF this.dao = "part_002"
    THEN criteria.kind # "object" \/ Len(criteria.props) = 0
    ELSE LodashIsEmpty(criteria)

deleteMatching(this, criteria) ==
    LET w == WhereOf(criteria, "AND")
    IN  Built(<<"DELETE", "FROM", table, "WHERE">> \o w.sql, w.parms)

\* if(!where) in part_002, if(_.isNil(where) || where==='') in lib
deleteWhere(this, where, whereParms) ==
    IF where = <<>> THEN Thrown
    ELSE Built(<<"DELETE", "FROM", table, "WHERE">> \o where, whereParms)

(***************************************************************************)
(* What an operation resolves to, given the result the pool answered its   *)
(* statement with.                                                         *)
(***************************************************************************)
firstOrNull_noSentinel(this, results) ==
    ResolvedRow(IF Len(results.rows) > 0 THEN results.rows[1] ELSE "undefined")

\* get and one: the first row, or null when there is none
firstOrNull(this, results) ==
    IF Len(results.rows) > 0 THEN ResolvedRow(results.rows[1]) ELSE ResolvedNull

\* all, query, selectWhere: the rows as the pool returned them
allRows(this, results) == ResolvedRows(results.rows)

IsAiPk(col) == col.autoincrement /\ col.pk

createResult_alwaysWritten(this, save, results) ==
    LET keyCol == SelectSeq(this.metadata.cols, IsAiPk)
    IN  IF keyCol # <<>>
        THEN ResolvedEntity(SetProp(save, keyCol[1].column, results.insertId))
        ELSE ResolvedEntity(save)

\* create: the save object, its autoincrement key set from insertId
createResult(this, save, results) ==
    LET keyCol == SelectSeq(this.metadata.cols, IsAiPk)
    IN  IF /\ GreaterThanZero(results.affectedRows)
           /\ Truthy(results.insertId)
           /\ GreaterThanZero(results.insertId)
           /\ keyCol # <<>>
        THEN ResolvedEntity(SetProp(save, keyCol[1].column, results.insertId))
        ELSE ResolvedEntity(save)

otherResult(this, results) == ResolvedOther

\* update, updateMatching, deleteOne and deleteMatching: the object they were
\* given, with `_affectedRows` set on it.
withAffectedRows(this, obj, results) ==
    ResolvedEntity(SetProp(obj, "_affectedRows", results.affectedRows))

\* delete: a new object holding `_affectedRows` alone
deleteResult(this, results) ==
    ResolvedEntity(Obj(<< <<"_affectedRows", results.affectedRows>> >>))

\* deleteWhere: as delete in part_002; lib ends in `resolve(ret)`, a name
\* that is not defined in the async function, so the ReferenceError is
\* caught, logged and thrown on.
deleteWhereResult(this, results) ==
    IF this.dao = "lib"
    THEN Rejected("thrown")
    ELSE ResolvedEntity(Obj(<< <<"_affectedRows", results.affectedRows>> >>))

(***************************************************************************)
(* The express middleware of db-api.js.  A middleware is configured once   *)
(* and then handed requests; `res` holds res.locals, the status it sent    *)
(* and whether it called next().  The middleware of part_000 is the older  *)
(* source of the same functions.                                           *)
(***************************************************************************)
Versions == {"db-api", "part_000"}

\* The options argument of parseQueryOptions.
NoOptions == [kind |-> "undefined", search_term_fields |-> <<>>]

Options(fields) == [kind |-> "object", search_term_fields |-> fields]

NoMiddleware ==
    [ version |-> "none", allowed_query_fields |-> <<>>, default_orderby |-> UndefinedColumns,
      default_limit |-> "undefined", options |-> NoOptions ]

NoRequest == [method |-> "none", query |-> UndefinedObj, body |-> UndefinedObj]

\* query_options as parseQueryOptions builds it
ParsedOptions(rows, skip, order) == [limit |-> rows, offset |-> skip, orderBy |-> order]

\* res.locals.criteria: null, or a CriteriaHelper
NoCriteria == [kind |-> "null", this |-> constructor("lib", NoOpts)]

Criteria(this) == [kind |-> "object", this |-> this]

\* The limit of dbInstructions.query_options: absent, a number or a string
\* of digits.
NoLimit == [type |-> "undefined", n |-> 0]

NumberLimit(n) == [type |-> "number", n |-> n]

StringLimit(n) == [type |-> "string", n |-> n]

\* res.locals.dbInstructions
Instructions(filter, given, rows, toSave) ==
    [ kind |-> "object", query |-> filter,
      query_options |-> [kind |-> IF given THEN "object" ELSE "undefined", limit |-> rows],
      toSave |-> toSave ]

NoInstructions ==
    [ kind |-> "undefined", query |-> UndefinedObj,
      query_options |-> [kind |-> "undefined", limit |-> NoLimit], toSave |-> <<>> ]

\* A response nothing was done to yet.
NoResponse ==
    [ assigned |-> {},
      query_options |-> ParsedOptions("undefined", "undefined", <<>>),
      modified_query |-> UndefinedObj,
      criteria |-> NoCriteria,
      dbInstructions |-> NoInstructions,
      result |-> <<>>,
      status |-> "none",
      next |-> "none" ]

NoExpress ==
    /\ middleware = NoMiddleware
    /\ req = NoRequest
    /\ res = NoResponse
    /\ called = <<>>

\* allowed_query_fields.indexOf(key) >= 0
Allowed(mw, key) ==
    \E i \in DOMAIN mw.allowed_query_fields : mw.allowed_query_fields[i] = key

\* query[key].split(','), for the strings of the model
split(str) == IF str = "name,-qty" THEN <<"name", "-qty">> ELSE <<str>>

\* The items of an array value.
Items(v) == IF v = "[1,2]" THEN <<"1", "2">> ELSE <<>>

RECURSIVE orEach(_, _, _, _)
\* for(let field_name of options.search_term_fields) criteria.or(...)
orEach(mw, this, fields, term) ==
    IF fields = <<>> THEN this
    ELSE orEach(mw,
                IF Allowed(mw, Head(fields))
                THEN _where(this, "OR", Head(fields), "LIKE", "%" \o term \o "%")
                ELSE this,
                Tail(fields), term)

\* The group built for search_term.
searchGroup(mw, term) ==
    groupEnd(orEach(mw, andGroup(constructor("lib", NoOpts)),
                    mw.options.search_term_fields, term))

RECURSIVE firstPass(_, _, _)
\* The first loop over the keys: the reserved keys are read, and every key
\* that is not an allowed query field is deleted.  Reading
\* options.search_term_fields of an undefined options throws.
firstPass(mw, props, acc) ==
    IF props = <<>> THEN acc
    ELSE LET key == props[1][1]
             v == props[1][2]
             read ==
                 IF Allowed(mw, key) THEN acc
                 ELSE IF key = "limit" THEN [acc EXCEPT !.query_options.limit = v]
                 ELSE IF key = "offset" THEN [acc EXCEPT !.query_options.offset = v]
                 ELSE IF key = "order_by"
                 THEN [acc EXCEPT !.query_options.orderBy =
                                      IF IsArray(v) THEN Items(v) ELSE split(v)]
                 ELSE IF key = "search_term" /\ mw.version = "db-api"
                 THEN IF mw.options.kind = "undefined" THEN [acc EXCEPT !.thrown = TRUE]
                      ELSE IF Len(mw.options.search_term_fields) > 0
                      THEN [acc EXCEPT !.criteria = Criteria(searchGroup(mw, v))]
                      ELSE acc
                 ELSE acc
         IN  IF read.thrown THEN read ELSE firstPass(mw, Tail(props), read)

RECURSIVE secondPass(_, _, _)
\* The second loop, over the keys that are left: everything "anded".
secondPass(mw, props, criteria) ==
    IF props = <<>> THEN criteria
    ELSE secondPass(mw, Tail(props),
             Criteria(_where(IF criteria.kind = "null"
                             THEN constructor("lib", NoOpts) ELSE criteria.this,
                             "AND", props[1][1], "=", props[1][2])))

NotParsed ==
    [ kind |-> "null", modified_query |-> UndefinedObj,
      query_options |-> ParsedOptions("undefined", "undefined", <<>>), criteria |-> NoCriteria ]

\* parseQueryOptionsFromObject(obj): null, the three results, or a throw.
\* No field is listed in options.booleans, floats or integers, so the
\* values are copied as they are.
parseQueryOptionsFromObject(mw, obj) ==
    IF obj.kind # "object" THEN NotParsed
    ELSE LET start ==
                 [ query_options |->
                       ParsedOptions(JsOr(mw.default_limit, "10000"), "undefined",
                                     IF mw.default_orderby.kind = "array"
                                     THEN mw.default_orderby.items ELSE <<"+id">>),
                   criteria |-> NoCriteria,
                   thrown |-> FALSE ]
             read == firstPass(mw, obj.props, start)
             IsAllowed(p) == Allowed(mw, p[1])
             kept == SelectSeq(obj.props, IsAllowed)
         IN  [ kind |-> IF read.thrown THEN "thrown" ELSE "object",
               modified_query |-> Obj(kept),
               query_options |-> read.query_options,
               criteria |-> IF mw.version = "db-api"
                            THEN secondPass(mw, kept, read.criteria) ELSE NoCriteria ]

\* ['POST','DELETE'].includes(req.method), tested after GET and DELETE
BodyMethods == {"POST", "DELETE"}

\* The object the middleware parses: req.query, req.body, or none.
parsedSource(request) ==
    IF request.method \in {"GET", "DELETE"} THEN "query"
    ELSE IF request.method \in BodyMethods THEN "body"
    ELSE "none"

\* The response after the middleware returned by parseQueryOptions ran.
parseQueryOptions(mw, request, response) ==
    LET source == parsedSource(request)
        parsed == IF source = "query" THEN parseQueryOptionsFromObject(mw, request.query)
                  ELSE IF source = "body" THEN parseQueryOptionsFromObject(mw, request.body)
                  ELSE NotParsed
    IN  IF parsed.kind = "thrown" THEN [response EXCEPT !.next = "error"]
        ELSE IF parsed.kind = "null" THEN [response EXCEPT !.next = "called"]
        ELSE [response EXCEPT
                 !.query_options = parsed.query_options,
                 !.modified_query = parsed.modified_query,
                 !.criteria = parsed.criteria,
                 !.assigned = @ \cup (IF mw.version = "db-api"
                                      THEN {"query_options", "modified_query", "criteria"}
                                      ELSE {"query_options", "modified_query"}),
                 !.next = "called"]

\* The request after it: part_000 parses the object itself (`query = obj`)
\* and deletes the keys from it; db-api.js parses a copy.
parsedRequest(mw, request) ==
    LET source == parsedSource(request)
        IsAllowed(p) == Allowed(mw, p[1])
    IN  IF mw.version = "db-api" THEN request
        ELSE IF source = "query" /\ request.query.kind = "object"
        THEN [request EXCEPT !.query.props = SelectSeq(@, IsAllowed)]
        ELSE IF source = "body" /\ request.body.kind = "object"
        THEN [request EXCEPT !.body.props = SelectSeq(@, IsAllowed)]
        ELSE request

\* dbi.comparison: function(v){ return v.product_id }
comparison(v) == Prop(v, "product_id")

RECURSIVE uniqBy(_, _)
\* The elements of array whose key is not in seen and not that of an
\* earlier element.
uniqBy(array, seen) ==
    IF array = <<>> THEN <<>>
    ELSE IF comparison(Head(array)) \in seen THEN uniqBy(Tail(array), seen)
    ELSE <<Head(array)>> \o uniqBy(Tail(array), seen \cup {comparison(Head(array))})

KeysOf(array) == {comparison(array[i]) : i \in DOMAIN array}

\* _.intersectionBy(array, values, dbi.comparison)
intersectionBy(array, values) ==
    LET Shared(v) == comparison(v) \in KeysOf(values)
    IN  uniqBy(SelectSeq(array, Shared), {})

\* _.xorBy(array, values, dbi.comparison)
xorBy(array, values) ==
    LET NotIn(v) == comparison(v) \notin KeysOf(values)
        NotInArray(v) == comparison(v) \notin KeysOf(array)
    IN  uniqBy(SelectSeq(array, NotIn) \o SelectSeq(values, NotInArray), {})

\* _.isEmpty(limit): true of undefined and of every number
LimitIsEmpty(rows) == rows.type # "string"

\* The two tests that answer 400.
saveAllRefuses(dbi) ==
    \/ dbi.kind # "object"
    \/ /\ LodashIsEmpty(dbi.query)
       /\ \/ dbi.query_options.kind # "object"
          \/ LimitIsEmpty(dbi.query_options.limit)
          \/ dbi.query_options.limit.n <= 0
          \/ dbi.query_options.limit.n > 10000

\* A gateway operation as the middleware calls it, with the rows it
\* resolved to when it is the query.
DaoCall(op, entity, rows) == [op |-> op, entity |-> entity, rows |-> rows]

(***************************************************************************)
(* Gateway operations.  An operation runs whole: its guard, the metadata   *)
(* load, the statement it builds and hands to the pool, and the pool's     *)
(* answer.  The caller then takes the settled promise (Return) before the  *)
(* next operation starts.                                                  *)
(***************************************************************************)
Gateway == [dao |-> dao, options |-> options, metadata |-> metadata]

Idle ==
    [ op |-> "idle", id |-> "undefined", save |-> UndefinedObj, criteria |-> UndefinedObj,
      opts |-> NoQueryOpts, where |-> <<>> ]

Ids == {"7"}

\* The properties of the entities given to create, update and deleteOne: a
\* primary key, a text and a numeric column with a value or the empty
\* string, the updated-timestamp column, and a key that names no column.
EntityProps ==
    { <<"id", "1">>, <<"name", "2">>, <<"name", "''">>, <<"qty", "3">>, <<"qty", "''">>,
      <<"updated", "4">>, <<"bogus", "5">> }

\* The SQL types of the columns of the table that has a nullable and a NOT
\* NULL column of each type.
SqlTypes ==
    << "int(11)", "bigint(20)", "smallint(6)", "decimal(10,2)", "numeric(10,2)",
       "float", "double", "date", "datetime", "timestamp", "varchar(50)", "text" >>

TypedTable ==
    << Row("id", "int(11)", "PRI", "NO", "auto_increment"),
       Row("label", "varchar(50)", "", "YES", "") >>
    \o [ i \in DOMAIN SqlTypes |-> Row(SqlTypes[i] \o " null", SqlTypes[i], "", "YES", "") ]
    \o [ i \in DOMAIN SqlTypes |-> Row(SqlTypes[i] \o " not null", SqlTypes[i], "", "NO", "") ]

\* The entities given to the operations on that table: a label and one more
\* column, with the empty string or a value.
TypedEntities ==
    { Obj(<< <<"label", "2">>, <<TypedTable[i].Field, v>> >>) :
        i \in 3..Len(TypedTable), v \in {"''", "5"} }

Entities == IF schema = TypedTable THEN TypedEntities ELSE ObjectsOver(EntityProps, MaxProps)

FilterProps == { <<"id", "1">>, <<"name", "2">>, <<"bogus", "5">> }

Filters == ObjectsOver(FilterProps, MaxFilterProps) \cup {NullObj, UndefinedObj}


\* The answers of the pool to SHOW COLUMNS, when the gateway asks.
MetadataAnswers == IF metadata.loaded THEN {"cached"} ELSE {"rows", "error"}

\* The row sets the pool answers a SELECT with; a row is known by its name.
RowSets == { <<>>, <<"row1">>, <<"row2", "row1">> }

SelectAnswers == {PoolError} \cup {Rows(rs) : rs \in RowSets}

\* The packets the pool answers an INSERT with: a generated id, none, no
\* row inserted.
InsertAnswers ==
    {PoolError, Packet("1", "9"), Packet("1", "0"), Packet("1", "undefined"), Packet("0", "0")}

\* The packets the pool answers an UPDATE or a DELETE with.
ChangeAnswers == {PoolError, Packet("1", "0"), Packet("0", "0")}

Perform(call, refused, Build(_), answers, Resolve(_, _)) ==
    /\ daoCall' = call
    /\ IF refused
       THEN /\ metadata' = metadata
            /\ issued' = <<>>
            /\ outcome' = "rejected"
            /\ result' = Rejected("thrown")
       ELSE \E mdAnswer \in MetadataAnswers :
              LET loaded == loadMetadata(Gateway, mdAnswer, schema)
                  shown == loadMetadataStatements(Gateway, mdAnswer, schema)
                  this == [Gateway EXCEPT !.metadata = loaded]
                  b == Build(this)
              IN  /\ metadata' = loaded
                  /\ IF b.thrown
                     THEN /\ issued' = shown
                          /\ outcome' = "rejected"
                          /\ result' = Rejected("thrown")
                     ELSE \E answer \in answers :
                            /\ issued' = Append(shown, Statement(b.sql, b.parms, answer))
                            /\ IF answer.err
                               THEN outcome' = "rejected" /\ result' = Rejected("driver")
                               ELSE LET settled == Resolve(this, answer)
                                    IN  /\ outcome' = IF settled.kind = "error"
                                                       THEN "rejected" ELSE "resolved"
                                        /\ result' = settled
    /\ UNCHANGED <<dao, options, schema, procs>>
    /\ UNCHANGED criteriaVars
    /\ UNCHANGED expressVars

Get ==
    /\ daoCall = Idle
    /\ \E id \in Ids :
           LET Build(this) == get(this, id)
           IN  Perform([Idle EXCEPT !.op = "get", !.id = id], FALSE, Build, SelectAnswers, firstOrNull)

All ==
    /\ daoCall = Idle
    /\ \E opts \in QueryOpts :
           LET Build(this) == all(this, opts)
           IN  Perform([Idle EXCEPT !.op = "all", !.opts = opts], FALSE, Build, SelectAnswers, allRows)

Query ==
    /\ daoCall = Idle
    /\ \E filter \in Filters, opts \in QueryOpts :
           LET Build(this) == query(this, filter, opts)
           IN  Perform([Idle EXCEPT !.op = "query", !.criteria = filter, !.opts = opts],
                       FALSE, Build, SelectAnswers, allRows)

\* one(query, opts): filter / find, then the first row
One ==
    /\ daoCall = Idle
    /\ \E filter \in Filters, opts \in QueryOpts :
           LET Build(this) == query(this, filter, opts)
           IN  Perform([Idle EXCEPT !.op = "one", !.criteria = filter, !.opts = opts],
                       FALSE, Build, SelectAnswers, firstOrNull)

CountRows ==
    /\ daoCall = Idle
    /\ \E filter \in Filters, opts \in QueryOpts :
           LET Build(this) == count(this, filter, opts)
           IN  Perform([Idle EXCEPT !.op = "count", !.criteria = filter, !.opts = opts],
                       FALSE, Build, SelectAnswers, otherResult)

\* The WHERE bodies a caller hands to selectWhere, each with its parameters.
WhereBodies == { [sql |-> <<>>, parms |-> <<>>],
                    [sql |-> <<"name", "LIKE", "?">>, parms |-> <<"2">>] }

SelectWhere ==
    /\ daoCall = Idle
    /\ \E w \in WhereBodies, opts \in QueryOpts :
           LET Build(this) == selectWhere(this, w.sql, w.parms, opts)
           IN  Perform([Idle EXCEPT !.op = "selectWhere", !.where = w.sql, !.opts = opts],
                       FALSE, Build, SelectAnswers, allRows)

CreateOpts == {NoQueryOpts, [Opts("undefined", "undefined", <<>>) EXCEPT !.explicit_pk = "true"]}

Create ==
    /\ daoCall = Idle
    /\ \E save \in Entities, opts \in CreateOpts :
           LET Build(this) == create(this, save, opts)
               Resolve(this, results) == createResult(this, save, results)
           IN  Perform([Idle EXCEPT !.op = "create", !.save = save, !.opts = opts],
                       FALSE, Build, InsertAnswers, Resolve)

Update ==
    /\ daoCall = Idle
    /\ \E save \in Entities :
           LET Build(this) == update(this, save)
               Resolve(this, results) == withAffectedRows(this, save, results)
           IN  Perform([Idle EXCEPT !.op = "update", !.save = save], FALSE, Build, ChangeAnswers, Resolve)

UpdateMatching ==
    /\ daoCall = Idle
    /\ \E save \in Entities, criteria \in Filters, opts \in QueryOpts :
           LET Build(this) == updateMatching(this, save, criteria, opts)
               Resolve(this, results) == withAffectedRows(this, save, results)
           IN  Perform([Idle EXCEPT !.op = "updateMatching", !.save = save,
                                    !.criteria = criteria, !.opts = opts],
                       updateMatchingRefuses(Gateway, criteria), Build, ChangeAnswers, Resolve)

DeleteOne ==
    /\ daoCall = Idle
    /\ \E toDelete \in Entities :
           LET Build(this) == deleteOne(this, toDelete)
               Resolve(this, results) == withAffectedRows(this, toDelete, results)
           IN  Perform([Idle EXCEPT !.op = "deleteOne", !.save = toDelete], FALSE, Build, ChangeAnswers, Resolve)

Delete ==
    /\ daoCall = Idle
    /\ \E id \in Ids :
           LET Build(this) == delete(this, id)
           IN  Perform([Idle EXCEPT !.op = "delete", !.id = id], FALSE, Build, ChangeAnswers, deleteResult)

DeleteMatching ==
    /\ daoCall = Idle
    /\ \E criteria \in Filters :
           LET Build(this) == deleteMatching(this, criteria)
               Resolve(this, results) == withAffectedRows(this, criteria, results)
           IN  Perform([Idle EXCEPT !.op = "deleteMatching", !.criteria = criteria],
                       deleteMatchingRefuses(Gateway, criteria), Build, ChangeAnswers, Resolve)

\* The caller hands the object a deleteMatching resolved to, which is the
\* criteria object it passed, to deleteMatching once more.
DeleteMatchingAgain ==
    /\ daoCall.op = "deleteMatching"
    /\ outcome = "resolved"
    /\ daoCall.criteria # result.entity
    /\ LET criteria == result.entity
           Build(this) == deleteMatching(this, criteria)
           Resolve(this, results) == withAffectedRows(this, criteria, results)
       IN  Perform([Idle EXCEPT !.op = "deleteMatching", !.criteria = criteria],
                   deleteMatchingRefuses(Gateway, criteria), Build, ChangeAnswers, Resolve)

DeleteWhere ==
    /\ daoCall = Idle
    /\ \E w \in WhereBodies :
           LET Build(this) == deleteWhere(this, w.sql, w.parms)
           IN  Perform([Idle EXCEPT !.op = "deleteWhere", !.where = w.sql],
                       FALSE, Build, ChangeAnswers, deleteWhereResult)

\* The operations that may be in progress at once, and one of them before
\* it is called.
Procs == 1..MaxOps

NotStarted ==
    [ pc |-> "start", op |-> "none", shown |-> "none", used |-> NullMetadata,
      statement |-> Built(<<>>, <<>>), outcome |-> "none" ]

\* The caller takes the settled promise; the gateway is idle again.
Return ==
    /\ daoCall # Idle
    /\ daoCall' = Idle
    /\ issued' = <<>>
    /\ outcome' = "none"
    /\ result' = NoResult
    /\ UNCHANGED <<dao, options, schema, metadata, procs>>
    /\ UNCHANGED criteriaVars
    /\ UNCHANGED expressVars

\* A gateway as its constructor leaves it.
InitGateway(daos, optionSet, schemas) ==
    /\ dao \in daos
    /\ options \in optionSet
    /\ schema \in schemas
    /\ metadata = NullMetadata
    /\ daoCall = Idle
    /\ issued = <<>>
    /\ outcome = "none"
    /\ result = NoResult
    /\ procs = [p \in Procs |-> NotStarted]

InitDao ==
    /\ InitGateway(Daos, DaoOptions, Schemas)
    /\ InitHelper({NoOpts}, {"lib"})
    /\ NoExpress

NextDao ==
    \/ Get \/ All \/ Query \/ One \/ CountRows \/ SelectWhere
    \/ Create \/ Update \/ UpdateMatching
    \/ DeleteOne \/ Delete \/ DeleteMatching
    \/ Return

SpecDao == InitDao /\ [][NextDao]_vars

(***************************************************************************)
(* The mutations, save among them.  save awaits three gateway operations   *)
(* in turn, each of which loads the metadata for itself: loadMetadata,     *)
(* one(query), then create or update.                                      *)
(***************************************************************************)
\* The answers of the pool to SHOW COLUMNS for a gateway in a given state.
AnswersFor(this) == IF this.metadata.loaded THEN {"cached"} ELSE {"rows", "error"}

\* How a run of an operation ends: the metadata it leaves, the statements it
\* handed to the pool with their answers, and what its promise settled with.
Run(loaded, statements, settled) ==
    [ metadata |-> loaded, issued |-> statements,
      outcome |-> IF settled.kind = "error" THEN "rejected" ELSE "resolved",
      result |-> settled ]

\* The runs of an operation of one statement on the gateway this0.
Runs(this0, Build(_), answers, Resolve(_, _)) ==
    UNION { LET this == [this0 EXCEPT !.metadata = loadMetadata(this0, a, schema)]
                shown == loadMetadataStatements(this0, a, schema)
                b == Build(this)
            IN  IF b.thrown
                THEN { Run(this.metadata, shown, Rejected("thrown")) }
                ELSE { Run(this.metadata, Append(shown, Statement(b.sql, b.parms, answer)),
                           IF answer.err THEN Rejected("driver") ELSE Resolve(this, answer))
                       : answer \in answers }
          : a \in AnswersFor(this0) }

\* The run r, after the statements that were issued before it began.
After(statements, r) == [r EXCEPT !.issued = statements \o @]

\* query[col.column] = save[col.column] for every primary-key column
saveQuery(this, save) ==
    LET pks == SelectSeq(this.metadata.cols, IsPk)
    IN  Obj([i \in DOMAIN pks |-> <<pks[i].column, Prop(save, pks[i].column)>>])

\* The runs of create(save, opts) on the gateway this0.
createRuns(this0, save, opts) ==
    LET Build(this) == create(this, save, opts)
        Resolve(this, results) == createResult(this, save, results)
    IN  Runs(this0, Build, InsertAnswers, Resolve)

\* The runs of update(save) on the gateway this0.
updateRuns(this0, save) ==
    LET Build(this) == update(this, save)
        Resolve(this, results) == withAffectedRows(this, save, results)
    IN  Runs(this0, Build, ChangeAnswers, Resolve)

\* The runs of one(query) on the gateway this0.
oneRuns(this0, filter) ==
    LET Build(this) == query(this, filter, NoQueryOpts)
    IN  Runs(this0, Build, SelectAnswers, firstOrNull)

saveMutation_always_create(this, oneResult, save, opts) == createRuns(this, save, opts)

\* if(!oneResult) create, else update
saveMutation(this, oneResult, save, opts) ==
    IF oneResult.kind = "null" THEN createRuns(this, save, opts) ELSE updateRuns(this, save)

\* The runs of save(save, opts).
saveRuns(this0, entity, opts) ==
    UNION { LET this1 == [this0 EXCEPT !.metadata = loadMetadata(this0, a, schema)]
                shown == loadMetadataStatements(this0, a, schema)
            IN  IF MetadataThrows(this1)
                THEN { Run(this1.metadata, shown, Rejected("thrown")) }
                ELSE UNION {
                       IF lookup.outcome = "rejected"
                       THEN { After(shown, lookup) }
                       ELSE { After(shown \o lookup.issued, m) :
                              m \in saveMutation([this1 EXCEPT !.metadata = lookup.metadata],
                                                 lookup.result, entity, opts) }
                       : lookup \in oneRuns(this1, saveQuery(this1, entity)) }
          : a \in AnswersFor(this0) }

\* The caller is handed one of the runs of an operation.
Settle(call, r) ==
    /\ daoCall' = call
    /\ metadata' = r.metadata
    /\ issued' = r.issued
    /\ outcome' = r.outcome
    /\ result' = r.result
    /\ UNCHANGED <<dao, options, schema, procs>>
    /\ UNCHANGED criteriaVars
    /\ UNCHANGED expressVars

Save ==
    /\ daoCall = Idle
    /\ \E entity \in Entities, opts \in CreateOpts :
           \E r \in saveRuns(Gateway, entity, opts) :
               Settle([Idle EXCEPT !.op = "save", !.save = entity, !.opts = opts], r)

NextMutations ==
    \/ Create \/ Update \/ UpdateMatching \/ Save
    \/ DeleteOne \/ Delete \/ DeleteMatching \/ DeleteMatchingAgain \/ DeleteWhere
    \/ Return

SpecMutations == InitDao /\ [][NextMutations]_vars

\* create, update and updateMatching on the table with a column of each type.
InitTypes ==
    /\ InitGateway(Daos, {DefaultOptions}, {TypedTable})
    /\ InitHelper({NoOpts}, {"lib"})
    /\ NoExpress

NextTypes == Create \/ Update \/ UpdateMatching \/ Return

SpecTypes == InitTypes /\ [][NextTypes]_vars

(***************************************************************************)
(* Operations in progress at once on one gateway.  JavaScript runs each    *)
(* operation without interruption from one await to the next, so an        *)
(* operation is at one of: not called yet ("start"), waiting for the pool  *)
(* to answer its SHOW COLUMNS ("awaitMetadata"), past `await               *)
(* this.loadMetadata()` ("loaded"), waiting for the pool to answer its     *)
(* statement ("awaitStatement"), settled ("done").                         *)
(***************************************************************************)
ConcurrentOps == {"all", "update"}

\* The statement an operation builds from the metadata it finds.
StatementOf(this, op) ==
    IF op = "all"
    THEN all(this, Opts("undefined", "undefined", <<>>))
    ELSE update(this, Obj(<< <<"name", "2">> >>))

\* The operation is called: it runs into loadMetadata, which hands SHOW
\* COLUMNS to the pool when this.metadata is not set, and awaits.
CStart ==
    \E p \in Procs, op \in ConcurrentOps :
        /\ procs[p].pc = "start"
        /\ procs' = [procs EXCEPT ![p] =
               IF loadMetadataStatements(Gateway, "rows", schema) = <<>>
               THEN [@ EXCEPT !.op = op, !.pc = "loaded"]
               ELSE [@ EXCEPT !.op = op, !.pc = "awaitMetadata", !.shown = "pending"]]
        /\ UNCHANGED <<dao, options, schema, metadata, daoCall, issued, outcome, result>>
        /\ UNCHANGED criteriaVars
        /\ UNCHANGED expressVars

\* The pool answers an operation's SHOW COLUMNS: loadMetadata assigns
\* this.metadata, or logs the error, and returns.
CMetadataAnswer ==
    \E p \in Procs, answer \in {"rows", "error"} :
        /\ procs[p].pc = "awaitMetadata"
        /\ metadata' = IF answer = "rows" THEN mapResults(Gateway, schema) ELSE metadata
        /\ procs' = [procs EXCEPT ![p] = [@ EXCEPT !.pc = "loaded", !.shown = answer]]
        /\ UNCHANGED <<dao, options, schema, daoCall, issued, outcome, result>>
        /\ UNCHANGED criteriaVars
        /\ UNCHANGED expressVars

\* The operation resumes after `await this.loadMetadata()`, builds its
\* statement from this.metadata as it is now and hands it to the pool, or
\* throws.
CBuild ==
    \E p \in Procs :
        /\ procs[p].pc = "loaded"
        /\ LET b == StatementOf(Gateway, procs[p].op)
           IN  procs' = [procs EXCEPT ![p] =
                  IF b.thrown
                  THEN [@ EXCEPT !.pc = "done", !.used = metadata, !.outcome = "rejected"]
                  ELSE [@ EXCEPT !.pc = "awaitStatement", !.used = metadata, !.statement = b]]
        /\ UNCHANGED <<dao, options, schema, metadata, daoCall, issued, outcome, result>>
        /\ UNCHANGED criteriaVars
        /\ UNCHANGED expressVars

\* The pool answers the operation's statement and its promise settles.
CSettle ==
    \E p \in Procs, answer \in {"ok", "error"} :
        /\ procs[p].pc = "awaitStatement"
        /\ procs' = [procs EXCEPT ![p] =
               [@ EXCEPT !.pc = "done",
                         !.outcome = IF answer = "error" THEN "rejected" ELSE "resolved"]]
        /\ UNCHANGED <<dao, options, schema, metadata, daoCall, issued, outcome, result>>
        /\ UNCHANGED criteriaVars
        /\ UNCHANGED expressVars

InitConcurrent ==
    /\ InitGateway(Daos, {DefaultOptions}, {CustomerTable, LineItemTable})
    /\ InitHelper({NoOpts}, {"lib"})
    /\ NoExpress

NextConcurrent == CStart \/ CMetadataAnswer \/ CBuild \/ CSettle

SpecConcurrent == InitConcurrent /\ [][NextConcurrent]_vars

(***************************************************************************)
(* Saves in progress at once on one gateway whose metadata is cached, for  *)
(* a table with a composite, not generated primary key that starts empty.  *)
(* A save is at one of: not called yet ("start"), waiting for the pool to  *)
(* answer the SELECT of one(query) ("awaitLookup"), waiting for the pool   *)
(* to answer its INSERT or UPDATE ("awaitMutation"), settled ("done").     *)
(* The pool answers from the rows the table holds: the table refuses a     *)
(* second row with the key of one it holds.                                *)
(***************************************************************************)
RaceEntities ==
    { Obj(<< <<"id", "1">>, <<"name", "2">>, <<"qty", "3">> >>),
      Obj(<< <<"id", "1">>, <<"name", "2">> >>) }

SaveNotStarted ==
    [ pc |-> "start", entity |-> UndefinedObj, statement |-> Built(<<>>, <<>>),
      answer |-> "none", outcome |-> "none" ]

\* The primary-key values of an entity.
KeyOf(entity) == PkWhere(Gateway, entity).parms

\* The rows of the table with a key, each known by the save that inserted it.
RowsOf(key) ==
    {p \in Procs : procs[p].answer = "inserted" /\ KeyOf(procs[p].entity) = key}

\* What the pool answers a SELECT by key, an INSERT and an UPDATE by key
\* with, when it does not fail for a reason of its own.
LookupAnswer(key) == Rows(IF RowsOf(key) # {} THEN <<"row1">> ELSE <<>>)

UpdateAnswer(key) == Packet(IF RowsOf(key) # {} THEN "1" ELSE "0", "0")

InsertAnswer(key) == IF RowsOf(key) # {} THEN PoolError ELSE Packet("1", "0")

\* The statement save builds once one(query) has resolved, or Thrown.
saveStatement(this, oneResult, entity, opts) ==
    IF oneResult.kind = "null" THEN create(this, entity, opts) ELSE update(this, entity)

settled_swallowed(answer) == "resolved"

\* sqlCommand rejects with the pool's err; create, update and save log it
\* and throw it on.
settled(answer) == IF answer.err THEN "rejected" ELSE "resolved"

\* save is called: the metadata is cached, so it builds the query over the
\* primary keys and one(query) hands its SELECT to the pool.
RCall ==
    \E p \in Procs, entity \in RaceEntities :
        /\ procs[p].pc = "start"
        /\ procs' = [procs EXCEPT ![p] =
               [@ EXCEPT !.pc = "awaitLookup", !.entity = entity,
                         !.statement = query(Gateway, saveQuery(Gateway, entity), NoQueryOpts)]]
        /\ UNCHANGED <<dao, options, schema, metadata, daoCall, issued, outcome, result>>
        /\ UNCHANGED criteriaVars
        /\ UNCHANGED expressVars

\* The pool answers the SELECT: on err save rejects; otherwise create or
\* update builds its statement and hands it to the pool, or throws.
RLookupAnswer ==
    \E p \in Procs, err \in BOOLEAN :
        /\ procs[p].pc = "awaitLookup"
        /\ LET answer == IF err THEN PoolError ELSE LookupAnswer(KeyOf(procs[p].entity))
               b == saveStatement(Gateway, firstOrNull(Gateway, answer), procs[p].entity,
                                  NoQueryOpts)
           IN  /\ issued' = Append(issued, Statement(procs[p].statement.sql,
                                                     procs[p].statement.parms, answer))
               /\ procs' = [procs EXCEPT ![p] =
                      IF err
                      THEN [@ EXCEPT !.pc = "done", !.answer = "error", !.outcome = "rejected"]
                      ELSE IF b.thrown
                      THEN [@ EXCEPT !.pc = "done", !.outcome = "rejected",
                                     !.answer = IF answer.rows = <<>> THEN "notFound" ELSE "found"]
                      ELSE [@ EXCEPT !.pc = "awaitMutation", !.statement = b,
                                     !.answer = IF answer.rows = <<>> THEN "notFound" ELSE "found"]]
        /\ UNCHANGED <<dao, options, schema, metadata, daoCall, outcome, result>>
        /\ UNCHANGED criteriaVars
        /\ UNCHANGED expressVars

\* The pool answers the INSERT or UPDATE and the promise of save settles.
RMutationAnswer ==
    \E p \in Procs, err \in BOOLEAN :
        /\ procs[p].pc = "awaitMutation"
        /\ LET key == KeyOf(procs[p].entity)
               inserting == procs[p].statement.sql[1] = "INSERT"
               answer == IF err THEN PoolError
                         ELSE IF inserting THEN InsertAnswer(key) ELSE UpdateAnswer(key)
           IN  /\ issued' = Append(issued, Statement(procs[p].statement.sql,
                                                     procs[p].statement.parms, answer))
               /\ procs' = [procs EXCEPT ![p] =
                      [@ EXCEPT !.pc = "done",
                                !.outcome = settled(answer),
                                !.answer = IF err THEN "error"
                                           ELSE IF ~inserting THEN "updated"
                                           ELSE IF answer.err THEN "duplicate" ELSE "inserted"]]
        /\ UNCHANGED <<dao, options, schema, metadata, daoCall, outcome, result>>
        /\ UNCHANGED criteriaVars
        /\ UNCHANGED expressVars

InitSaveRace ==
    /\ dao \in Daos
    /\ options \in DaoOptions
    /\ schema = LineItemTable
    /\ metadata = mapResults([dao |-> dao, options |-> options, metadata |-> NullMetadata],
                             schema)
    /\ daoCall = Idle
    /\ issued = <<>>
    /\ outcome = "none"
    /\ result = NoResult
    /\ procs = [p \in Procs |-> SaveNotStarted]
    /\ InitHelper({NoOpts}, {"lib"})
    /\ NoExpress

NextSaveRace == RCall \/ RLookupAnswer \/ RMutationAnswer

SpecSaveRace == InitSaveRace /\ [][NextSaveRace]_vars

(***************************************************************************)
(* The builder under general inputs: every operator class, every value     *)
(* class, one column name.                                                 *)
(***************************************************************************)
Names == {"x"}
Opers == {"=", "like", "in", "is null", "Is Not Null"}
Values == {"null", "undefined", "''", "0", "[]"}

And ==
    /\ ncalls < MaxCalls
    /\ \E name \in Names, oper \in Opers, value \in Values :
        Called(_where(This, "AND", name, oper, value),
               [NoCall EXCEPT !.op = "and", !.bool = "AND", !.name = name, !.oper = oper, !.value = value])

Or ==
    /\ ncalls < MaxCalls
    /\ \E name \in Names, oper \in Opers, value \in Values :
        Called(_where(This, "OR", name, oper, value),
               [NoCall EXCEPT !.op = "or", !.bool = "OR", !.name = name, !.oper = oper, !.value = value])

Where ==
    /\ ncalls < MaxCalls
    /\ \E name \in Names, oper \in Opers, value \in Values :
        Called(_where(This, "AND NOT", name, oper, value),
               [NoCall EXCEPT !.op = "where", !.bool = "AND NOT", !.name = name, !.oper = oper, !.value = value])

AndGroup ==
    /\ ncalls < MaxCalls
    /\ helper = "lib"
    /\ Called(andGroup(This), [NoCall EXCEPT !.op = "andGroup"])

OrGroup ==
    /\ ncalls < MaxCalls
    /\ helper = "lib"
    /\ Called(orGroup(This), [NoCall EXCEPT !.op = "orGroup"])

GroupEnd ==
    /\ ncalls < MaxCalls
    /\ helper = "lib"
    /\ Called(groupEnd(This), [NoCall EXCEPT !.op = "groupEnd"])

InitCriteria ==
    /\ InitHelper(CtorOpts, Helpers)
    /\ NoExpress
    /\ InitGateway({"lib"}, {DefaultOptions}, {CustomerTable})

NextCriteria == And \/ Or \/ Where \/ AndGroup \/ OrGroup \/ GroupEnd

SpecCriteria == InitCriteria /\ [][NextCriteria]_vars

(***************************************************************************)
(* The builder under grouping inputs: three columns, each with its own     *)
(* non-empty value, the operator "=", and the group calls.                 *)
(***************************************************************************)
GroupArgs == { <<"x", "5">>, <<"a", "1">>, <<"b", "2">> }

GAnd ==
    /\ ncalls < MaxGroupCalls
    /\ \E arg \in GroupArgs :
        Called(_where(This, "AND", arg[1], "=", arg[2]),
               [NoCall EXCEPT !.op = "and", !.bool = "AND", !.name = arg[1], !.oper = "=", !.value = arg[2]])

GOr ==
    /\ ncalls < MaxGroupCalls
    /\ \E arg \in GroupArgs :
        Called(_where(This, "OR", arg[1], "=", arg[2]),
               [NoCall EXCEPT !.op = "or", !.bool = "OR", !.name = arg[1], !.oper = "=", !.value = arg[2]])

GAndGroup ==
    /\ ncalls < MaxGroupCalls
    /\ Called(andGroup(This), [NoCall EXCEPT !.op = "andGroup"])

GOrGroup ==
    /\ ncalls < MaxGroupCalls
    /\ Called(orGroup(This), [NoCall EXCEPT !.op = "orGroup"])

GGroupEnd ==
    /\ ncalls < MaxGroupCalls
    /\ Called(groupEnd(This), [NoCall EXCEPT !.op = "groupEnd"])

InitGroups ==
    /\ InitHelper({NoOpts}, {"lib"})
    /\ NoExpress
    /\ InitGateway({"lib"}, {DefaultOptions}, {CustomerTable})

NextGroups == GAnd \/ GOr \/ GAndGroup \/ GOrGroup \/ GGroupEnd

SpecGroups == InitGroups /\ [][NextGroups]_vars

(***************************************************************************)
(* The builder under query-option inputs: orderBy, limit and offset calls, *)
(* mixed with a clause.                                                    *)
(***************************************************************************)
ColumnsArgs ==
    { UndefinedColumns, NullColumns, Array(<<>>),
      Array(<<"+name", "-age">>), Array(<<"-created">>) }

\* -5, -0.5, 0, 0.5, 3 and 3.7
NumberTenths == {-50, -5, 0, 5, 30, 37}

NumberArgs == {UndefinedNumber, NullNumber} \cup {Number(t) : t \in NumberTenths}

OrderBy ==
    /\ ncalls < MaxOptionCalls
    /\ \E columns \in ColumnsArgs :
        Called(orderBy(This, columns), [NoCall EXCEPT !.op = "orderBy", !.columns = columns])

Limit ==
    /\ ncalls < MaxOptionCalls
    /\ \E number \in NumberArgs :
        Called(limit(This, number), [NoCall EXCEPT !.op = "limit", !.number = number])

Offset ==
    /\ ncalls < MaxOptionCalls
    /\ \E number \in NumberArgs :
        Called(offset(This, number), [NoCall EXCEPT !.op = "offset", !.number = number])

OAnd ==
    /\ ncalls < MaxOptionCalls
    /\ Called(_where(This, "AND", "x", "=", "5"),
              [NoCall EXCEPT !.op = "and", !.bool = "AND", !.name = "x", !.oper = "=",
                             !.value = "5"])

InitOptions ==
    /\ InitHelper({NoOpts}, Helpers)
    /\ NoExpress
    /\ InitGateway({"lib"}, {DefaultOptions}, {CustomerTable})

NextOptions == OrderBy \/ Limit \/ Offset \/ OAnd

SpecOptions == InitOptions /\ [][NextOptions]_vars

(***************************************************************************)
(* parseQueryOptions, handed one request after another.                    *)
(***************************************************************************)
ParseMiddlewares ==
    { [ version |-> v, allowed_query_fields |-> <<"name", "qty">>,
        default_orderby |-> order, default_limit |-> rows, options |-> o ] :
        v \in Versions,
        order \in {UndefinedColumns, Array(<<"-name">>)},
        rows \in {"undefined", "50"},
        o \in {NoOptions, Options(<<"name", "bogus">>), Options(<<"bogus">>)} }

Methods == {"GET", "POST", "PUT", "DELETE", "PATCH"}

\* What req.query and req.body may hold.
Sources ==
    { UndefinedObj,
      Obj(<<>>),
      Obj(<< <<"name", "2">> >>),
      Obj(<< <<"limit", "5">> >>),
      Obj(<< <<"name", "2">>, <<"limit", "7">>, <<"offset", "3">> >>),
      Obj(<< <<"order_by", "name,-qty">>, <<"bogus", "5">> >>),
      Obj(<< <<"order_by", "[1,2]">>, <<"qty", "''">> >>),
      Obj(<< <<"search_term", "abc">>, <<"name", "2">> >>),
      Obj(<< <<"search_term", "abc">> >>) }

Requests == [method : Methods, query : Sources, body : Sources]

\* A request arrives.
Receive ==
    /\ req = NoRequest
    /\ \E request \in Requests : req' = request
    /\ res' = NoResponse
    /\ UNCHANGED <<middleware, called>>
    /\ UNCHANGED criteriaVars
    /\ UNCHANGED daoVars

\* The middleware runs on it.
ParseQueryOptions ==
    /\ req # NoRequest
    /\ res.next = "none"
    /\ res' = parseQueryOptions(middleware, req, res)
    /\ req' = parsedRequest(middleware, req)
    /\ UNCHANGED <<middleware, called>>
    /\ UNCHANGED criteriaVars
    /\ UNCHANGED daoVars

\* The request has been answered by what comes after the middleware.
Respond ==
    /\ req # NoRequest
    /\ res.next # "none" \/ res.status # "none"
    /\ req' = NoRequest
    /\ res' = NoResponse
    /\ called' = <<>>
    /\ UNCHANGED middleware
    /\ UNCHANGED criteriaVars
    /\ UNCHANGED daoVars

InitParse ==
    /\ InitHelper({NoOpts}, {"lib"})
    /\ InitGateway({"lib"}, {DefaultOptions}, {CustomerTable})
    /\ middleware \in ParseMiddlewares
    /\ req = NoRequest
    /\ res = NoResponse
    /\ called = <<>>

NextParse == Receive \/ ParseQueryOptions \/ Respond

SpecParse == InitParse /\ [][NextParse]_vars

(***************************************************************************)
(* saveAll, handed one request after another with the dbInstructions an    *)
(* earlier middleware put on res.locals.  The gateway answers the query    *)
(* with rows or an error, and each deleteOne and create resolves or        *)
(* rejects.                                                                *)
(***************************************************************************)
\* Every sequence of at most max elements of a set.
SeqsOver(S, max) == UNION { [1..n -> S] : n \in 0..max }

\* The rows the query may return: two of them have the same comparison key.
ExistingRows ==
    { Obj(<< <<"id", "10">>, <<"product_id", "p1">> >>),
      Obj(<< <<"id", "11">>, <<"product_id", "p1">> >>),
      Obj(<< <<"id", "12">>, <<"product_id", "p2">> >>) }

\* The entries of toSave: two of them have the same comparison key.
ToSaveEntries ==
    { Obj(<< <<"product_id", "p1">> >>),
      Obj(<< <<"product_id", "p2">> >>),
      Obj(<< <<"product_id", "p3">> >>),
      Obj(<< <<"product_id", "p3">>, <<"qty", "2">> >>) }

InstructionSet ==
    { NoInstructions } \cup
    { Instructions(filter, given[1], given[2], toSave) :
        filter \in {Obj(<<>>), Obj(<< <<"order_id", "1">> >>)},
        given \in { <<FALSE, NoLimit>>, <<TRUE, NumberLimit(100)>>,
                    <<TRUE, StringLimit(100)>>, <<TRUE, StringLimit(0)>> },
        toSave \in SeqsOver(ToSaveEntries, MaxRows) }

\* A request arrives and an earlier middleware sets res.locals.dbInstructions.
Instruct ==
    /\ req = NoRequest
    /\ req' = [NoRequest EXCEPT !.method = "PUT"]
    /\ \E dbi \in InstructionSet : res' = [NoResponse EXCEPT !.dbInstructions = dbi]
    /\ called' = <<>>
    /\ UNCHANGED middleware
    /\ UNCHANGED criteriaVars
    /\ UNCHANGED daoVars

\* create_these[idx].id = result.id, where create resolved to the entity
\* with the generated id ("id") or to the entity as it was ("same").
withIds(create_these, created) ==
    [ i \in DOMAIN create_these |->
        SetProp(create_these[i], "id",
                IF created = "id" THEN "9" ELSE Prop(create_these[i], "id")) ]

SaveAll ==
    /\ req # NoRequest
    /\ res.next = "none"
    /\ res.status = "none"
    /\ LET dbi == res.dbInstructions
       IN  IF saveAllRefuses(dbi)
           THEN /\ res' = [res EXCEPT !.status = "400"]
                /\ called' = called
           ELSE \E existing \in SeqsOver(ExistingRows, MaxRows),
                   found \in BOOLEAN, deleted \in BOOLEAN, created \in {"error", "id", "same"} :
                  LET shared == intersectionBy(existing, dbi.toSave)
                      delete_these == xorBy(existing, shared)
                      create_these == xorBy(dbi.toSave, shared)
                      finds == << DaoCall(IF middleware.version = "db-api"
                                          THEN "filter" ELSE "find", dbi.query,
                                          IF found THEN existing ELSE <<>>) >>
                      deletes == [ i \in DOMAIN delete_these |->
                                     DaoCall("deleteOne", delete_these[i], <<>>) ]
                      creates == [ i \in DOMAIN create_these |->
                                     DaoCall("create", create_these[i], <<>>) ]
                  IN  IF ~found
                      THEN /\ called' = finds
                           /\ res' = [res EXCEPT !.next = "error"]
                      ELSE IF ~deleted /\ delete_these # <<>>
                      THEN /\ called' = finds \o deletes
                           /\ res' = [res EXCEPT !.next = "error"]
                      ELSE IF created = "error" /\ create_these # <<>>
                      THEN /\ called' = finds \o deletes \o creates
                           /\ res' = [res EXCEPT !.next = "error"]
                      ELSE /\ called' = finds \o deletes \o creates
                           /\ res' = [res EXCEPT
                                         !.result = shared \o withIds(create_these, created),
                                         !.assigned = @ \cup {"result"},
                                         !.next = "called"]
    /\ UNCHANGED <<middleware, req>>
    /\ UNCHANGED criteriaVars
    /\ UNCHANGED daoVars

InitSaveAll ==
    /\ InitHelper({NoOpts}, {"lib"})
    /\ InitGateway({"lib"}, {DefaultOptions}, {CustomerTable})
    /\ middleware \in {[NoMiddleware EXCEPT !.version = v] : v \in Versions}
    /\ req = NoRequest
    /\ res = NoResponse
    /\ called = <<>>

NextSaveAll == Instruct \/ SaveAll \/ Respond

SpecSaveAll == InitSaveAll /\ [][NextSaveAll]_vars

(***************************************************************************)
(* Properties of the criteria builder                                      *)
(***************************************************************************)
WhereOps == {"and", "or", "where"}

UnaryInputs == {"is null", "Is Not Null", "IS NULL", "IS NOT NULL"}

Placeholders(text) == Count(text, "?")

\* text2 is text1 with something appended
Extends(text1, text2) ==
    /\ Len(text2) > Len(text1)
    /\ SubSeq(text2, 1, Len(text1)) = text1

\* C1: after every builder call the number of '?' placeholders in
\* whereClause equals parms.length, and parms grows in clause order: a call
\* that renders a non-unary clause appends exactly the value it was given,
\* and every other call leaves parms alone.
C1_PlaceholdersMatchParms ==
    [][ /\ Placeholders(whereClause') = Len(parms')
        /\ IF /\ lastCall'.op \in WhereOps
              /\ lastCall'.oper \notin UnaryInputs
              /\ whereClause' # whereClause
           THEN parms' = Append(parms, lastCall'.value)
           ELSE parms' = parms ]_vars

C1_Witness ==
    /\ helper = "lib"
    /\ Len(parms) = 2
    /\ parms[1] = "[]" /\ parms[2] = "0"
    /\ whereClause = <<"(", "x", "IN", "(", "?", ")", "OR", "x", "LIKE", "?">>

\* C7: with default options, and/or with a non-unary operator and a value
\* of null, undefined or '' changes neither whereClause nor parms, and with
\* the value 0 appends one clause, one placeholder and the parameter 0.
C7_SkipNullAndEmptyNotZero ==
    [][ ( /\ ctorOpts = NoOpts
          /\ lastCall'.op \in {"and", "or"}
          /\ lastCall'.oper \notin UnaryInputs )
        => /\ lastCall'.value \in {"null", "undefined", "''"}
              => UNCHANGED <<whereClause, parms>>
           /\ lastCall'.value = "0"
              => /\ Extends(whereClause, whereClause')
                 /\ Placeholders(whereClause') = Placeholders(whereClause) + 1
                 /\ parms' = Append(parms, "0") ]_vars

\* C8: a builder constructed with the omit-null option turned off renders a
\* clause whose value is null or undefined, and one constructed with the
\* omit-empty option turned off renders a clause whose value is '', each
\* with one placeholder and the value pushed.
C8_SkipPolicyConfigurable ==
    [][ ( /\ ctorOpts.given
          /\ "false" \in {ctorOpts.omitIfNull, ctorOpts.omitNull}
          /\ "false" \in {ctorOpts.omitIfEmpty, ctorOpts.omitEmpty}
          /\ lastCall'.op \in WhereOps
          /\ lastCall'.oper \notin UnaryInputs
          /\ lastCall'.value \in {"null", "undefined", "''"} )
        => /\ Placeholders(whereClause') = Placeholders(whereClause) + 1
           /\ parms' = Append(parms, lastCall'.value) ]_vars

\* C9: a call whose operator is IS NULL or IS NOT NULL in any letter case
\* always renders its clause, whatever the value, adds no placeholder and
\* leaves parms alone; a rendered clause of any other operator adds exactly
\* one placeholder and pushes exactly one value.
C9_UnaryOperators ==
    [][ lastCall'.op \in WhereOps
        => IF lastCall'.oper \in UnaryInputs
           THEN /\ Extends(whereClause, whereClause')
                /\ endsWith(whereClause', "IS NULL") \/ endsWith(whereClause', "IS NOT NULL")
                /\ Placeholders(whereClause') = Placeholders(whereClause)
                /\ parms' = parms
           ELSE whereClause' # whereClause
                => /\ Placeholders(whereClause') = Placeholders(whereClause) + 1
                   /\ Len(parms') = Len(parms) + 1 ]_vars

C9_Witness ==
    /\ lastCall.op = "or"
    /\ lastCall.oper = "Is Not Null"
    /\ lastCall.value = "null"
    /\ whereClause = <<"x", "=", "?", "OR", "x", "IS NOT NULL">>
    /\ parms = <<"0">>

\* C10: andGroup/orGroup append "(" alone when the clause is empty or ends
\* with "(", and "AND (" / "OR (" otherwise; the first clause rendered in a
\* freshly opened group has no connective; so the calls andGroup,
\* or(a,=,1), or(b,=,2), groupEnd render (a=? OR b=?) with parms [1,2], and
\* after and(x,=,5) they render x=? AND (a=? OR b=?) with parms [5,1,2].
C10_Grouping ==
    [][ LET open  == whereClause = <<>> \/ endsWith(whereClause, "(")
            call  == lastCall'
            bound == <<call.name, "=", "?">>
        IN  /\ call.op = "andGroup"
               => whereClause' = whereClause \o (IF open THEN <<"(">> ELSE <<"AND", "(">>)
            /\ call.op = "orGroup"
               => whereClause' = whereClause \o (IF open THEN <<"(">> ELSE <<"OR", "(">>)
            /\ (call.op \in {"and", "or"} /\ endsWith(whereClause, "("))
               => whereClause' = whereClause \o bound
            \* the first example, call by call
            /\ (whereClause = <<>> /\ call.op = "andGroup")
               => (whereClause' = <<"(">> /\ parms' = parms)
            /\ (whereClause = <<"(">> /\ parms = <<>>
                        /\ call.op = "or" /\ call.name = "a" /\ call.value = "1")
               => (whereClause' = <<"(", "a", "=", "?">> /\ parms' = <<"1">>)
            /\ (whereClause = <<"(", "a", "=", "?">> /\ parms = <<"1">>
                        /\ call.op = "or" /\ call.name = "b" /\ call.value = "2")
               => (whereClause' = <<"(", "a", "=", "?", "OR", "b", "=", "?">>
                   /\ parms' = <<"1", "2">>)
            /\ (whereClause = <<"(", "a", "=", "?", "OR", "b", "=", "?">>
                        /\ parms = <<"1", "2">> /\ call.op = "groupEnd")
               => (whereClause' = <<"(", "a", "=", "?", "OR", "b", "=", "?", ")">>
                   /\ parms' = <<"1", "2">>)
            \* the second example, call by call
            /\ (whereClause = <<>> /\ call.op = "and" /\ call.name = "x" /\ call.value = "5")
               => (whereClause' = <<"x", "=", "?">> /\ parms' = <<"5">>)
            /\ (whereClause = <<"x", "=", "?">> /\ parms = <<"5">> /\ call.op = "andGroup")
               => (whereClause' = <<"x", "=", "?", "AND", "(">> /\ parms' = <<"5">>)
            /\ (whereClause = <<"x", "=", "?", "AND", "(">> /\ parms = <<"5">>
                        /\ call.op = "or" /\ call.name = "a" /\ call.value = "1")
               => (whereClause' = <<"x", "=", "?", "AND", "(", "a", "=", "?">>
                   /\ parms' = <<"5", "1">>)
            /\ (whereClause = <<"x", "=", "?", "AND", "(", "a", "=", "?">>
                        /\ parms = <<"5", "1">>
                        /\ call.op = "or" /\ call.name = "b" /\ call.value = "2")
               => (whereClause' = <<"x", "=", "?", "AND", "(", "a", "=", "?", "OR", "b", "=", "?">>
                   /\ parms' = <<"5", "1", "2">>)
            /\ (whereClause = <<"x", "=", "?", "AND", "(", "a", "=", "?", "OR", "b", "=", "?">>
                        /\ parms = <<"5", "1", "2">> /\ call.op = "groupEnd")
               => (whereClause' =
                     <<"x", "=", "?", "AND", "(", "a", "=", "?", "OR", "b", "=", "?", ")">>
                   /\ parms' = <<"5", "1", "2">>) ]_vars

C10_Witness ==
    /\ lastCall.op = "groupEnd"
    /\ whereClause = <<"x", "=", "?", "AND", "(", "a", "=", "?", "OR", "b", "=", "?", ")">>
    /\ parms = <<"5", "1", "2">>

\* C11: orderBy with an empty list, null or undefined changes nothing: the
\* stored ordering stays what an earlier orderBy left, and whereClause,
\* parms, limit and offset stay as they were; orderBy with a non-empty list
\* stores that list and changes nothing else.
C11_OrderByEmptyIsNoOp ==
    [][ lastCall'.op = "orderBy"
        => /\ UNCHANGED <<whereClause, parms>>
           /\ queryOptions'.limit = queryOptions.limit
           /\ queryOptions'.offset = queryOptions.offset
           /\ IF Len(lastCall'.columns.items) = 0
              THEN queryOptions'.orderBy = queryOptions.orderBy
              ELSE /\ queryOptions'.orderBy.set
                   /\ queryOptions'.orderBy.columns.items = lastCall'.columns.items ]_vars

\* n tenths lie in the unit interval that starts at the integer k
IsFloorOf(k, n) == 10 * k <= n /\ n < 10 * k + 10

\* What limit and offset are to store for an argument, with the default
\* for an invalid one.
Stores(stored, number, default) ==
    /\ stored.set
    /\ IF number.kind \in {"undefined", "null"} \/ number.tenths < 0
       THEN stored.n = default
       ELSE IsFloorOf(stored.n, number.tenths)

\* C12: limit(n) stores 1 when n is undefined, null or negative and
\* floor(n) otherwise; offset(n) stores 0 when n is undefined, null or
\* negative and floor(n) otherwise; each leaves the other alone, and the
\* stored limit and offset are never negative.
C12_LimitOffsetClamp ==
    [][ /\ lastCall'.op = "limit"
           => /\ Stores(queryOptions'.limit, lastCall'.number, 1)
              /\ queryOptions'.offset = queryOptions.offset
        /\ lastCall'.op = "offset"
           => /\ Stores(queryOptions'.offset, lastCall'.number, 0)
              /\ queryOptions'.limit = queryOptions.limit
        /\ queryOptions'.limit.n >= 0
        /\ queryOptions'.offset.n >= 0 ]_vars

\* limit(-5), then offset(undefined), then limit(3.7)
C12_Witness ==
    /\ lastCall.op = "limit"
    /\ lastCall.number = Number(37)
    /\ queryOptions.limit = SetNumber(3)
    /\ queryOptions.offset = SetNumber(0)

(***************************************************************************)
(* Properties of the table gateway                                         *)
(***************************************************************************)
\* No statement of this kind (its first keyword) was handed to the pool.
NoStatement(keyword) == \A i \in DOMAIN issued : issued[i].sql[1] # keyword

EmptyCriteria(obj) == obj.kind # "object" \/ obj.props = <<>>

\* The positions of the '?' placeholders of a text, in text order.
PlaceholderPositions(text) ==
    LET IsPlaceholder(i) == text[i] = "?"
    IN  SelectSeq([i \in DOMAIN text |-> i], IsPlaceholder)

BeforeWhere(text, p) == \A j \in 1..p : text[j] # "WHERE"

KeyIndex(obj, k) == CHOOSE i \in DOMAIN obj.props : obj.props[i][1] = k

\* What a property value may be bound as in an INSERT or a SET list: itself,
\* NULL for an empty value, or its timestamp text.
BoundAs(v) == {v, MomentFormat(v)} \cup (IF v = "''" THEN {"null"} ELSE {})

\* The values the claim allows for the i-th placeholder, at position p.
ValuesFor(call, text, p, i) ==
    CASE call.op \in {"get", "delete"} -> {call.id}
      [] call.op \in {"query", "count", "deleteMatching"} -> {Prop(call.criteria, text[p - 2])}
      [] call.op = "deleteOne" -> {Prop(call.save, text[p - 2])}
      [] call.op = "create" -> BoundAs(Prop(call.save, text[3 + 2 * i]))
      [] call.op = "update" ->
            IF BeforeWhere(text, p) THEN BoundAs(Prop(call.save, text[p - 2]))
            ELSE {Prop(call.save, text[p - 2])}
      [] call.op = "updateMatching" ->
            IF BeforeWhere(text, p) THEN BoundAs(Prop(call.save, text[p - 2]))
            ELSE {Prop(call.criteria, text[p - 2])}

AssembledOps ==
    {"get", "query", "count", "create", "update", "updateMatching",
     "deleteOne", "delete", "deleteMatching"}

\* C2: in every statement get, query, count, create, update, updateMatching,
\* deleteOne, delete and deleteMatching hand to the pool, the number of '?'
\* placeholders equals the number of parameters, the i-th parameter is the
\* value of the column the i-th placeholder stands for, and in an UPDATE
\* the SET values come first, in entity property order.
C2_StatementParmsMatch ==
    daoCall.op \in AssembledOps =>
        \A n \in DOMAIN issued :
            LET text == issued[n].sql
                ph == PlaceholderPositions(text)
            IN  /\ Len(ph) = Len(issued[n].parms)
                /\ \A i \in DOMAIN ph :
                       issued[n].parms[i] \in ValuesFor(daoCall, text, ph[i], i)
                /\ daoCall.op \in {"update", "updateMatching"} =>
                       \A i, j \in DOMAIN ph :
                           (i < j /\ BeforeWhere(text, ph[j])) =>
                               KeyIndex(daoCall.save, text[ph[i] - 2])
                                   < KeyIndex(daoCall.save, text[ph[j] - 2])

C2_Witness ==
    /\ daoCall.op = "update"
    /\ schema = LineItemTable
    /\ daoCall.save = Obj(<< <<"name", "2">>, <<"qty", "''">> >>)
    /\ outcome = "resolved"
    /\ Len(issued) = 1
    /\ issued[1].parms = <<"null", "undefined", "2">>

C4_UpdateMatchingRefusesEmpty ==
    (daoCall.op = "updateMatching" /\ EmptyCriteria(daoCall.criteria))
        => (outcome = "rejected" /\ NoStatement("UPDATE"))

HasRowCap(text) ==
    \E j \in DOMAIN text : j < Len(text) /\ text[j] = "LIMIT" /\ text[j + 1] = "1000"

\* C5: every SELECT of query, count, all and selectWhere for which the
\* caller gives no limit, the options omitted or present without one,
\* carries LIMIT 1000.
C5_DefaultRowCap ==
    ( /\ daoCall.op \in {"query", "count", "all", "selectWhere"}
      /\ daoCall.opts.kind = "undefined" \/ daoCall.opts.limit = "undefined" )
        => \A n \in DOMAIN issued :
               issued[n].sql[1] = "SELECT" => HasRowCap(issued[n].sql)

\* A property the claim counts as data to update: it names a column of the
\* table that is no primary key and none of the three configured columns.
IsUpdatable(k) ==
    /\ \E n \in DOMAIN schema : schema[n].Field = k /\ schema[n].Key # "PRI"
    /\ k \notin { options.created_timestamp_column, options.updated_timestamp_column,
                  options.version_number_column }

\* C6: update rejects and hands no UPDATE statement to the pool whenever the
\* entity has no property that names a non-primary-key column other than
\* the created-timestamp, updated-timestamp and version columns.
C6_UpdateRefusesNoData ==
    ( /\ daoCall.op = "update"
      /\ \A i \in DOMAIN daoCall.save.props : ~IsUpdatable(daoCall.save.props[i][1]) )
        => (outcome = "rejected" /\ NoStatement("UPDATE"))

C6_Witness ==
    /\ daoCall.op = "update"
    /\ daoCall.save = Obj(<< <<"id", "1">>, <<"updated", "4">> >>)
    /\ options = DefaultOptions
    /\ schema = CustomerTable
    /\ metadata.loaded
    /\ outcome = "rejected"
    /\ NoStatement("UPDATE")

\* The statement the operation handed to the pool last, and how the pool
\* answered it.
LastStatement == issued[Len(issued)]

Issued(keyword) == Len(issued) > 0 /\ LastStatement.sql[1] = keyword

Answered(keyword) == Issued(keyword) /\ ~LastStatement.answer.err

Keys(obj) == {obj.props[i][1] : i \in DOMAIN obj.props}

\* The columns the cached metadata holds, and those of a kind.
Columns == {metadata.cols[i].column : i \in DOMAIN metadata.cols}

ColumnsThat(Is(_)) == {metadata.cols[i].column : i \in {j \in DOMAIN metadata.cols : Is(metadata.cols[j])}}

AiPkColumns == LET Is(c) == c.pk /\ c.autoincrement IN ColumnsThat(Is)

PkColumns == LET Is(c) == c.pk IN ColumnsThat(Is)

\* The driver reports a generated id: a row inserted and a positive insertId.
GeneratedId(answer) == answer.affectedRows \in {"1"} /\ answer.insertId \in {"9"}

NoGeneratedId(answer) == answer.insertId \in {"0", "undefined"}

\* C13: on a gateway that has read the table's columns, create resolves to
\* the input object; when the table has exactly one autoincrement
\* primary-key column and the driver reports affectedRows > 0 and a
\* positive insertId, that key property holds the insertId and every other
\* property is as given; when the driver reports no generated id, or the
\* table has no autoincrement primary key, the object is as given.
C13_CreateReturnsGeneratedKey ==
    (daoCall.op = "create" /\ metadata.loaded /\ Answered("INSERT"))
        => /\ outcome = "resolved"
           /\ result.kind = "entity"
           /\ (Cardinality(AiPkColumns) = 1 /\ GeneratedId(LastStatement.answer))
                 => \A key \in AiPkColumns :
                      /\ Prop(result.entity, key) = LastStatement.answer.insertId
                      /\ Keys(result.entity) = Keys(daoCall.save) \cup {key}
                      /\ \A k \in Keys(daoCall.save) \ {key} :
                             Prop(result.entity, k) = Prop(daoCall.save, k)
           /\ (AiPkColumns = {} \/ NoGeneratedId(LastStatement.answer))
                 => result.entity = daoCall.save

C13_Witness ==
    /\ daoCall.op = "create"
    /\ schema = CustomerTable
    /\ daoCall.save = Obj(<< <<"name", "2">> >>)
    /\ Answered("INSERT")
    /\ LastStatement.answer.insertId = "9"
    /\ result = ResolvedEntity(Obj(<< <<"name", "2">>, <<"id", "9">> >>))

\* The columns an INSERT names: the tokens between "(" and ")" that are no
\* commas.
InsertColumns(text) ==
    LET close == CHOOSE j \in DOMAIN text : text[j] = ")" /\ \A i \in 1..(j - 1) : text[i] # ")"
    IN  {text[j] : j \in {i \in 5..(close - 1) : text[i] # ","}}

\* C14: the INSERT of create names exactly the properties of the entity
\* that are columns of the metadata and no autoincrement primary key, plus
\* at most the autoincrement primary-key properties of the entity, and
\* those only under opts.explicit_pk; a property that names no column is
\* never named.
C14_InsertColumns ==
    (daoCall.op = "create" /\ Issued("INSERT"))
        => LET named == InsertColumns(LastStatement.sql)
               plain == (Keys(daoCall.save) \cap Columns) \ AiPkColumns
           IN  /\ plain \subseteq named
               /\ named \subseteq Keys(daoCall.save) \cap Columns
               /\ (named \cap AiPkColumns # {}) => daoCall.opts.explicit_pk = "true"

C14_Witness ==
    /\ daoCall.op = "create"
    /\ dao = "part_002"
    /\ schema = CustomerTable
    /\ daoCall.save = Obj(<< <<"id", "1">>, <<"bogus", "5">> >>)
    /\ daoCall.opts.explicit_pk = "true"
    /\ Issued("INSERT")
    /\ InsertColumns(LastStatement.sql) = {"id"}

\* The tokens of a statement after its WHERE keyword.
AfterWhere(text) ==
    IF \E j \in DOMAIN text : text[j] = "WHERE"
    THEN SubSeq(text, (CHOOSE j \in DOMAIN text : text[j] = "WHERE") + 1, Len(text))
    ELSE <<>>

\* The columns bound to a placeholder in the SET list.
SetBound(text) ==
    {text[j - 2] : j \in {i \in DOMAIN text : text[i] = "?" /\ BeforeWhere(text, i)}}

ConfiguredColumns ==
    { options.created_timestamp_column, options.updated_timestamp_column,
      options.version_number_column }

\* C15: the UPDATE of update binds in its SET list exactly the entity
\* properties that name a non-primary-key column other than the configured
\* created-timestamp, updated-timestamp and version columns, and its WHERE
\* clause is column=? for every primary-key column and no other, joined by
\* AND, each bound to the entity's value for that column.
C15_UpdateSetAndWhere ==
    (daoCall.op = "update" /\ Issued("UPDATE"))
        => LET text == LastStatement.sql
               where == AfterWhere(text)
               n == Cardinality(PkColumns)
               nset == Cardinality(SetBound(text))
           IN  /\ SetBound(text) = (Keys(daoCall.save) \cap (Columns \ PkColumns)) \ ConfiguredColumns
               /\ Len(where) = IF n = 0 THEN 0 ELSE 4 * n - 1
               /\ {where[j] : j \in {i \in DOMAIN where : i % 4 = 1}} = PkColumns
               /\ \A j \in DOMAIN where :
                      CASE j % 4 = 2 -> where[j] = "="
                        [] j % 4 = 3 -> where[j] = "?"
                        [] j % 4 = 0 -> where[j] = "AND"
                        [] OTHER -> TRUE
               /\ Len(LastStatement.parms) = nset + n
               /\ \A m \in 1..n :
                      LastStatement.parms[nset + m] = Prop(daoCall.save, where[4 * m - 3])

C15_Witness ==
    /\ daoCall.op = "update"
    /\ schema = LineItemTable
    /\ options = DefaultOptions
    /\ daoCall.save = Obj(<< <<"qty", "3">>, <<"updated", "4">> >>)
    /\ Issued("UPDATE")
    /\ SetBound(LastStatement.sql) = {"qty"}
    /\ AfterWhere(LastStatement.sql) = <<"id", "=", "?", "AND", "name", "=", "?">>

\* The columns a statement sets to CURRENT_TIMESTAMP, and those it sets to
\* themselves plus 1.
SetToCurrentTimestamp(text) ==
    {text[j - 2] : j \in {i \in DOMAIN text : text[i] = "CURRENT_TIMESTAMP"}}

Incremented(text) ==
    {text[j - 1] : j \in {i \in DOMAIN text : text[i] = "+" /\ text[i + 1] = "1"}}

FlaggedUpdatedTimestamp == LET Is(c) == c.is_updated_timestamp IN ColumnsThat(Is)

FlaggedVersion == LET Is(c) == c.is_updated_version IN ColumnsThat(Is)

\* C16: every UPDATE of update and updateMatching sets to CURRENT_TIMESTAMP
\* exactly the columns the metadata flags is-updated-timestamp and to
\* themselves plus 1 exactly the columns it flags is-version, and so makes
\* no automatic assignment to a column the metadata does not contain.
C16_AutomaticColumns ==
    (daoCall.op \in {"update", "updateMatching"} /\ Issued("UPDATE"))
        => /\ SetToCurrentTimestamp(LastStatement.sql) = FlaggedUpdatedTimestamp
           /\ Incremented(LastStatement.sql) = FlaggedVersion

C18_PoolErrorPropagates ==
    \A n \in DOMAIN issued :
        issued[n].answer.err
            => /\ n = Len(issued)
               /\ outcome = "rejected"
               /\ result = Rejected("driver")

\* C19: once the gateway holds metadata, no operation hands another SHOW
\* COLUMNS to the pool and the metadata stays the value it is; before that
\* the metadata is null, and the only change it ever undergoes is the one
\* from null to loaded.
C19_MetadataLoadedOnce ==
    [][ /\ metadata.loaded
           => /\ metadata' = metadata
              /\ \A n \in DOMAIN issued' : issued'[n].sql # ShowColumnsText
        /\ ~metadata.loaded
           => /\ metadata = NullMetadata
              /\ metadata' # metadata
                    => /\ metadata'.loaded
                       /\ \E n \in DOMAIN issued' :
                              issued'[n].sql = ShowColumnsText /\ ~issued'[n].answer.err ]_vars

C19_Witness ==
    /\ metadata.loaded
    /\ daoCall.op = "query"
    /\ outcome = "resolved"
    /\ Len(issued) = 1
    /\ issued[1].sql[1] = "SELECT"

\* The operations that have built their statement.
HaveBuilt == {p \in Procs : procs[p].pc \in {"awaitStatement", "done"}}

\* The pool has answered no SHOW COLUMNS with an error.
IntrospectionSucceeds == \A p \in Procs : procs[p].shown # "error"

\* C20: when the operations in progress on a gateway interleave at their
\* awaits and the pool answers every SHOW COLUMNS with the unchanged
\* schema, every operation builds its statement from metadata that is
\* loaded and holds every column of the schema, all from the same metadata
\* value, and once all have completed the cache holds that value.
C20_ConcurrentLoadsConverge ==
    IntrospectionSucceeds
        => /\ \A p \in HaveBuilt :
                  /\ procs[p].used.loaded
                  /\ [i \in DOMAIN procs[p].used.cols |-> procs[p].used.cols[i].column]
                         = [i \in DOMAIN schema |-> schema[i].Field]
                  /\ \A q \in HaveBuilt : procs[q].used = procs[p].used
           /\ (\A p \in Procs : procs[p].pc = "done")
                 => \A p \in Procs : procs[p].used = metadata

\* Two operations each asked for the columns, a third started after the
\* cache was filled, and all have completed.
C20_Witness ==
    /\ \A p \in Procs : procs[p].pc = "done" /\ procs[p].outcome = "resolved"
    /\ Cardinality({p \in Procs : procs[p].shown = "rows"}) = 2
    /\ Cardinality({p \in Procs : procs[p].shown = "none"}) = 1
    /\ metadata.loaded

(***************************************************************************)
(* save                                                                    *)
(***************************************************************************)
\* The statements of the operation other than SHOW COLUMNS, in the order
\* they were handed to the pool.
Handed == LET NotShow(st) == st.sql[1] # "SHOW" IN SelectSeq(issued, NotShow)

IsMutation(st) == st.sql[1] \in {"INSERT", "UPDATE"}

\* No SHOW COLUMNS of the operation was answered with an error.
MetadataArrived == \A i \in DOMAIN issued : issued[i].sql[1] = "SHOW" => ~issued[i].answer.err

\* SELECT * FROM t WHERE pk1=? AND pk2=? ..., over every primary-key column
LookupHead == SelectAll \o WhereText(PkWhere(Gateway, daoCall.save).sql)

\* C21: save(entity) first looks the entity up by every primary-key column,
\* with the values read off the entity, and then hands the pool one
\* mutation: an UPDATE if and only if the lookup returned a row, an INSERT
\* otherwise.  No mutation is handed to the pool before the lookup was
\* answered, and save resolves to what that update or create resolves to.
C21_SaveLooksUpThenMutates ==
    (daoCall.op = "save" /\ MetadataArrived)
        => /\ Handed # <<>>
                 => /\ Handed[1].sql[1] = "SELECT"
                    /\ SubSeq(Handed[1].sql, 1, Len(LookupHead)) = LookupHead
                    /\ Handed[1].parms = PkWhere(Gateway, daoCall.save).parms
           /\ Len(Handed) <= 2
           /\ Len(Handed) = 2
                 => /\ ~Handed[1].answer.err
                    /\ IsMutation(Handed[2])
                    /\ Handed[2].sql[1] = "UPDATE" <=> Len(Handed[1].answer.rows) > 0
                    /\ Handed[2].sql[1] = "INSERT" <=> Len(Handed[1].answer.rows) = 0
           /\ outcome = "resolved"
                 => /\ Len(Handed) = 2
                    /\ result.kind = "entity"
                    /\ Handed[2].sql[1] = "UPDATE"
                          => result = withAffectedRows(Gateway, daoCall.save, Handed[2].answer)
                    /\ Handed[2].sql[1] = "INSERT"
                          => result = createResult(Gateway, daoCall.save, Handed[2].answer)

\* A save of an entity of the two-key table whose lookup found a row and
\* whose UPDATE changed it.
C21_Witness ==
    /\ daoCall.op = "save"
    /\ outcome = "resolved"
    /\ Cardinality(PkColumns) = 2
    /\ Len(Handed) = 2
    /\ Len(Handed[1].answer.rows) > 0
    /\ Handed[1].parms = <<"1", "undefined">>
    /\ Handed[2].sql[1] = "UPDATE"
    /\ Prop(result.entity, "_affectedRows") = "1"

(***************************************************************************)
(* Overlapping saves                                                       *)
(***************************************************************************)
RaceKeys == {KeyOf(e) : e \in RaceEntities}

\* C22: save is not atomic.  Saves of one key that is not in the table yet
\* may each be answered not-found and each hand an INSERT to the pool; the
\* save whose INSERT the pool refuses as a duplicate rejects, hands the
\* pool nothing more (no UPDATE in its stead), and the table holds one row
\* with the key.
C22_SaveRace ==
    /\ \A p \in Procs :
          procs[p].answer = "duplicate"
             => /\ procs[p].pc = "done"
                /\ procs[p].outcome = "rejected"
                /\ procs[p].statement.sql[1] = "INSERT"
                /\ Cardinality(RowsOf(KeyOf(procs[p].entity))) = 1
    /\ \A key \in RaceKeys : Cardinality(RowsOf(key)) <= 1

\* Two saves of the same key were both answered not-found and both handed
\* their INSERT to the pool; the first got the row in, the second was
\* refused and rejected.
C22_Witness ==
    \E p, q \in Procs :
        /\ procs[p].answer = "inserted" /\ procs[p].outcome = "resolved"
        /\ procs[q].answer = "duplicate" /\ procs[q].outcome = "rejected"
        /\ KeyOf(procs[p].entity) = KeyOf(procs[q].entity)
        /\ Len(issued) >= 4
        /\ issued[1].sql[1] = "SELECT" /\ issued[1].answer.rows = <<>>
        /\ issued[2].sql[1] = "SELECT" /\ issued[2].answer.rows = <<>>
        /\ issued[3].sql[1] = "INSERT" /\ ~issued[3].answer.err
        /\ issued[4].sql[1] = "INSERT" /\ issued[4].answer.err

(***************************************************************************)
(* Affected-row counts                                                     *)
(***************************************************************************)
Mutations ==
    { "create", "update", "updateMatching", "save",
      "deleteOne", "delete", "deleteMatching", "deleteWhere" }

\* The last statement of the operation is an INSERT, UPDATE or DELETE that
\* the pool answered without error.
MutationAnswered == Answered("INSERT") \/ Answered("UPDATE") \/ Answered("DELETE")

\* C23: every mutation whose statement the pool answers without error
\* resolves to a value that carries `_affectedRows`, the count the pool
\* reported, also when that count is zero; deleteOne and delete do not
\* reject because no row was affected.
C23_AffectedRowsCarried ==
    (daoCall.op \in Mutations /\ MutationAnswered)
        => /\ outcome = "resolved"
           /\ result.kind = "entity"
           /\ Prop(result.entity, "_affectedRows") = LastStatement.answer.affectedRows

(***************************************************************************)
(* Empty strings for numeric and date columns                              *)
(***************************************************************************)
\* The numeric and date/time SQL types: int, bigint, smallint, decimal,
\* numeric, float, double, date, datetime, timestamp.
NumericOrDateTypes ==
    { "int(11)", "bigint(20)", "smallint(6)", "decimal(10,2)", "numeric(10,2)",
      "float", "double", "date", "datetime", "timestamp" }

\* The column the second property of the entity names, and its value.
SecondColumn == FindColumn(metadata.cols, daoCall.save.props[2][1])[1]

SecondValue == daoCall.save.props[2][2]

\* C24: create, update and updateMatching bind an empty string given for a
\* nullable column of a numeric or date/time type as NULL; given for such a
\* column that is NOT NULL, the operation rejects and hands the pool no
\* INSERT or UPDATE; given for a column of another type, it is bound as it
\* is.
C24_EmptyStringForNumericOrDate ==
    ( /\ daoCall.op \in {"create", "update", "updateMatching"}
      /\ schema = TypedTable
      /\ metadata.loaded
      /\ daoCall.op = "updateMatching" => ~updateMatchingRefuses(Gateway, daoCall.criteria)
      /\ SecondValue = "''" )
        => IF SecondColumn.sql_type \in NumericOrDateTypes
           THEN IF SecondColumn.nullable
                THEN (Issued("INSERT") \/ Issued("UPDATE")) /\ LastStatement.parms[2] = "null"
                ELSE outcome = "rejected" /\ ~Issued("INSERT") /\ ~Issued("UPDATE")
           ELSE (Issued("INSERT") \/ Issued("UPDATE")) /\ LastStatement.parms[2] = "''"

(***************************************************************************)
(* Filter keys that name no column                                         *)
(***************************************************************************)
\* The filter with the properties that name a column of the table.
KnownPart(filter) ==
    LET Known(p) == p[1] \in Columns
    IN  [filter EXCEPT !.props = SelectSeq(filter.props, Known)]

\* The statement the operation builds for a filter.
FilterStatement(filter) ==
    CASE daoCall.op = "query" -> query(Gateway, filter, daoCall.opts)
      [] daoCall.op = "count" -> count(Gateway, filter, daoCall.opts)
      [] daoCall.op = "deleteMatching" -> deleteMatching(Gateway, filter)
      [] OTHER -> updateMatching(Gateway, daoCall.save, filter, daoCall.opts)

\* C25: query, count, deleteMatching and updateMatching ignore the keys of
\* the filter that name no column of the table: the statement is the one
\* built for the filter without those keys, with the same parameters, and
\* no such key is in its text.
C25_UnknownFilterKeysIgnored ==
    ( /\ daoCall.op \in {"query", "count", "deleteMatching", "updateMatching"}
      /\ metadata.loaded
      /\ Issued("SELECT") \/ Issued("DELETE") \/ Issued("UPDATE") )
        => /\ \A k \in Keys(daoCall.criteria) \ Columns :
                  \A i \in DOMAIN LastStatement.sql : LastStatement.sql[i] # k
           /\ LastStatement.sql = FilterStatement(KnownPart(daoCall.criteria)).sql
           /\ LastStatement.parms = FilterStatement(KnownPart(daoCall.criteria)).parms

(***************************************************************************)
(* Well-formed groups                                                      *)
(***************************************************************************)
\* How many of the first k tokens of a text are tok.
CountIn(text, k, tok) == Cardinality({i \in 1..k : text[i] = tok})

\* Every group that was opened has been closed by a later groupEnd, and no
\* groupEnd came without a group to close.
GroupsClosed ==
    /\ \A k \in 1..Len(whereClause) :
           CountIn(whereClause, k, ")") <= CountIn(whereClause, k, "(")
    /\ Count(whereClause, ")") = Count(whereClause, "(")

Connectives == {"AND", "OR"}

\* C28: when every andGroup and orGroup has been closed by a later
\* groupEnd, the rendered whereClause is well formed: no group is empty,
\* also when the skip policy dropped every clause in it, and no AND or OR
\* stands right after an opening parenthesis or at the start.
C28_GroupsWellFormed ==
    GroupsClosed
        => /\ \A i \in 1..(Len(whereClause) - 1) :
                  whereClause[i] = "("
                     => /\ whereClause[i + 1] # ")"
                        /\ whereClause[i + 1] \notin Connectives
           /\ Len(whereClause) > 0 => whereClause[1] \notin Connectives

(***************************************************************************)
(* parseQueryOptions                                                       *)
(***************************************************************************)
\* The middleware has read its options from source: it set the three
\* properties of res.locals and called next(); modified_query holds the
\* allowed fields of source, and the limit is the one source gives, or the
\* default.
ReadFrom(source) ==
    LET IsAllowed(p) == Allowed(middleware, p[1])
    IN  /\ res'.next = "called"
        /\ {"query_options", "modified_query", "criteria"} \subseteq res'.assigned
        /\ res'.modified_query = Obj(SelectSeq(source.props, IsAllowed))
        /\ res'.query_options.limit =
               IF "limit" \in Keys(source)
               THEN Prop(source, "limit")
               ELSE JsOr(middleware.default_limit, "10000")

\* C26: the middleware of parseQueryOptions reads the query options from
\* the querystring, and from nothing else, when the request is a GET or a
\* DELETE, and from the body, and from nothing else, when it is a POST or
\* a PUT; for each of the four methods, when that source is not empty, it
\* sets res.locals.query_options, res.locals.modified_query and
\* res.locals.criteria and then calls next().
C26_ParseQueryOptionsSources ==
    [][ (req # NoRequest /\ res.next = "none" /\ res'.next # "none")
           => /\ (req.method \in {"GET", "DELETE"} /\ ~LodashIsEmpty(req.query))
                    => ReadFrom(req.query)
              /\ (req.method \in {"POST", "PUT"} /\ ~LodashIsEmpty(req.body))
                    => ReadFrom(req.body) ]_vars

(***************************************************************************)
(* C27.  saveAll replaces by difference.  With E the rows the query        *)
(* returned and S the toSave array, compared by the comparison key, a      *)
(* saveAll that went on to next() called deleteOne for exactly the rows    *)
(* of E whose key is absent from S and create for exactly the entries of   *)
(* S whose key is absent from E, called nothing else after the query, and  *)
(* left as the result the rows of E whose key is in S followed by the      *)
(* created entries.                                                        *)
(***************************************************************************)
SaveAllDone == res.next = "called" /\ called # <<>> /\ "result" \in res.assigned

RowsE == called[1].rows

EntriesS == res.dbInstructions.toSave

AbsentFrom(array, others) ==
    LET Absent(v) == comparison(v) \notin KeysOf(others)
    IN  SelectSeq(array, Absent)

PresentIn(array, others) ==
    LET Present(v) == comparison(v) \in KeysOf(others)
    IN  SelectSeq(array, Present)

EntitiesOf(calls) == { calls[i].entity : i \in DOMAIN calls }

CallsOf(op) ==
    LET IsOp(c) == c.op = op
    IN  SelectSeq(Tail(called), IsOp)

KeySeq(array) == [ i \in DOMAIN array |-> comparison(array[i]) ]

C27_SaveAllByDifference ==
    SaveAllDone =>
        /\ EntitiesOf(CallsOf("deleteOne")) = EntitiesOf([ i \in DOMAIN AbsentFrom(RowsE, EntriesS) |->
                                                  [entity |-> AbsentFrom(RowsE, EntriesS)[i]] ])
        /\ Len(CallsOf("deleteOne")) = Len(AbsentFrom(RowsE, EntriesS))
        /\ EntitiesOf(CallsOf("create")) = EntitiesOf([ i \in DOMAIN AbsentFrom(EntriesS, RowsE) |->
                                               [entity |-> AbsentFrom(EntriesS, RowsE)[i]] ])
        /\ Len(CallsOf("create")) = Len(AbsentFrom(EntriesS, RowsE))
        /\ Len(Tail(called)) = Len(CallsOf("deleteOne")) + Len(CallsOf("create"))
        /\ KeySeq(res.result) = KeySeq(PresentIn(RowsE, EntriesS) \o AbsentFrom(EntriesS, RowsE))
        /\ SubSeq(res.result, 1, Len(PresentIn(RowsE, EntriesS))) = PresentIn(RowsE, EntriesS)

DistinctKeys(array) == \A i, j \in DOMAIN array : comparison(array[i]) = comparison(array[j]) => i = j

\* The same, for rows and entries whose comparison keys are all different.
SaveAllByDifferenceOnDistinctKeys ==
    (SaveAllDone /\ DistinctKeys(RowsE) /\ DistinctKeys(EntriesS)) => C27_SaveAllByDifference

(***************************************************************************)
(* C29.  update(entity) and save(entity) never hand the pool an UPDATE     *)
(* statement without a WHERE clause, whatever columns the introspection    *)
(* returned, a table or view without a primary-key column included.        *)
(***************************************************************************)
HasWhere(st) == \E i \in DOMAIN st.sql : st.sql[i] = "WHERE"

C29_UpdateAlwaysHasWhere ==
    daoCall.op \in {"update", "save"}
        => \A i \in DOMAIN issued :
              issued[i].sql[1] = "UPDATE" => HasWhere(issued[i])

\* The same, for a table that has a primary-key column.
UpdateHasWhereOnKeyedTables ==
    (\E i \in DOMAIN schema : schema[i].Key = "PRI") => C29_UpdateAlwaysHasWhere

(***************************************************************************)
(* C30.  deleteMatching is repeatable with the same criteria object: when  *)
(* the object a deleteMatching call resolved to is handed to               *)
(* deleteMatching again, the second call builds the same DELETE text and   *)
(* the same parameter array as the first.                                  *)
(***************************************************************************)
DeleteMatchingRepeated ==
    /\ daoCall.op = "deleteMatching"
    /\ outcome = "resolved"
    /\ daoCall'.op = "deleteMatching"
    /\ daoCall'.criteria = result.entity
    /\ issued' # <<>>
    /\ issued'[Len(issued')].sql[1] = "DELETE"

C30_DeleteMatchingRepeatable ==
    [][ DeleteMatchingRepeated
            => /\ issued'[Len(issued')].sql = LastStatement.sql
               /\ issued'[Len(issued')].parms = LastStatement.parms ]_vars

====
